---------------------------- MODULE Spec2Model ----------------------------
(***************************************************************************)
(* Model of Dashboard.py: a Streamlit script that loads five sheets of an  *)
(* uploaded workbook and renders eight tabs, top to bottom, on every run.  *)
(*                                                                         *)
(* State: the uploaded file, the messages of the sidebar, the loaded       *)
(* sheets, the retained st.session_state entries, the position of the      *)
(* current run (the next tab to render) and what the last rendered tab     *)
(* computed.  One action per tab, translated from its code.                *)
(*                                                                         *)
(* Data conventions                                                        *)
(*   - a cell is a record [t, v]: t is its kind, v its payload;            *)
(*   - a timestamp is a number of hours; a calendar day is HoursPerDay of  *)
(*     them, a month DaysPerMonth days, a year MonthsPerYear months;       *)
(*   - a client name and a search text are sequences of characters;        *)
(*   - a float ratio is kept exact, as the record [num, den].              *)
(***************************************************************************)
EXTENDS Integers, Sequences, FiniteSets, TLC

VARIABLES archivo, sidebar, sheets, session, pc, view

vars == <<archivo, sidebar, sheets, session, pc, view>>

(***************************************************************************)
(* Bounds of the model                                                     *)
(***************************************************************************)
\* rows of a table whose text column varies
MaxTextRows == 2
\* rows of a table whose categorical / multi-value columns vary
MaxCatRows == 2
\* rows of a table whose date column varies
MaxDateRows == 2
\* rows of a table whose value and grouping columns vary
MaxAggRows == 2
\* characters of a client name, and of a search text
MaxNameLen == 2
MaxTextLen == 2
\* columns and rows of a targets sheet, rows of an actuals sheet
MaxMetaCols == 2
MaxMetaRows == 1
MaxActualRows == 2
\* rows of a table across uploads
MaxSessionRows == 2
\* days of a model month (the calendar is uniform in the model)
DaysPerMonth == 2
\* columns of the targets sheets whose names vary
MaxMonthCols == 2
\* rows of the sheets that are bucketed by period
MaxPeriodRows == 2
\* rows of the sheets on which several filters are combined
MaxConjRows == 2
\* columns of a sheet that the dashboard does not name
MaxOtherCols == 20
\* rows of the sheets whose export is examined
MaxExportRows == 2

(***************************************************************************)
(* Program constants                                                       *)
(***************************************************************************)
\* pd.Timedelta(days=1), in hours
HoursPerDay == 24
\* len(meses_ordenados)
MonthsPerYear == 12
\* the year of timestamp 0
BaseYear == 2024

(***************************************************************************)
(* Cells                                                                   *)
(***************************************************************************)
\* a number as the workbook parser delivers it
Num(n) == [t |-> "num", v |-> n]
\* a text cell that pd.to_numeric parses to n
NumText(n) == [t |-> "numtext", v |-> n]
\* a timestamp cell, and a text cell that pd.to_datetime parses to ts
Date(ts) == [t |-> "date", v |-> ts]
DateText(ts) == [t |-> "datetext", v |-> ts]
\* a text cell neither conversion can parse
Junk == [t |-> "text", v |-> 0]
\* an empty cell of a numeric or date column (NaN / NaT)
NaN == [t |-> "null", v |-> 0]
\* a text cell of a categorical column, and its empty cell
Str(s) == [t |-> "str", v |-> s]
NoStr == [t |-> "null", v |-> ""]
\* a client name (a sequence of characters), and its empty cell
Name(cs) == [t |-> "str", v |-> cs]
NoName == [t |-> "null", v |-> <<>>]

IsNull(c) == c.t = "null"

\* pd.to_datetime(series, errors='coerce'), cell by cell
safe_to_datetime(c) ==
    IF c.t \in {"date", "datetext"} THEN Date(c.v) ELSE NaN

\* pd.to_numeric(series, errors='coerce'), cell by cell
safe_to_numeric(c) ==
    IF c.t \in {"num", "numtext"} THEN Num(c.v) ELSE NaN

(***************************************************************************)
(* Sequences                                                               *)
(***************************************************************************)
Range(s) == {s[i] : i \in 1..Len(s)}

RECURSIVE SumSeq(_)
SumSeq(s) == IF s = <<>> THEN 0 ELSE Head(s) + SumSeq(Tail(s))

\* the distinct elements of s, in the order they first occur: Series.unique()
RECURSIVE Unique(_)
Unique(s) ==
    IF s = <<>> THEN <<>>
    ELSE LET u == Unique(SubSeq(s, 1, Len(s) - 1))
             x == s[Len(s)]
         IN  IF x \in Range(u) THEN u ELSE Append(u, x)

\* every sub-list of s, in the order of s
RECURSIVE SubLists(_)
SubLists(s) ==
    IF s = <<>> THEN {<<>>}
    ELSE LET r == SubLists(Tail(s))
         IN  r \cup {<<Head(s)>> \o x : x \in r}

\* every sequence over S of length lo..hi
SeqsOf(S, lo, hi) == UNION {[1..n -> S] : n \in lo..hi}

(***************************************************************************)
(* Tables.  A sheet is [cols, rows]: the columns it has, by role, and its  *)
(* rows; a row is a record with one cell per role.                         *)
(*   fecha     'Fecha CC' / 'Dia' / 'CreaFecha'                            *)
(*   valor     'Subtotal' / 'Subtotalmen' / 'Total'                        *)
(*   cliente   'Cliente'                                                   *)
(*   comercial 'Comercial' / 'COMERCIAL'                                   *)
(*   cierre    'CIERRE DE FACTURACIÓN'                                     *)
(*   req       'REQUERIMIENTO ESPECIAL'                                    *)
(*   obs       'OBSERVACIONES'                                             *)
(***************************************************************************)
DataCols == {"fecha", "valor", "cliente", "comercial", "cierre", "req", "obs"}

\* pd.DataFrame(): what a sheet that cannot be parsed becomes
EmptyFrame == [cols |-> {}, rows |-> <<>>]

\* DataFrame.empty
IsEmpty(df) == df.cols = {} \/ df.rows = <<>>

\* the columns of a sheet that only the exporter names:
\*   vlr_unit 'Vlr Unit', total 'Total', peso_cp 'Peso CP', residuo 'Residuo'
ExportCols == {"vlr_unit", "total", "peso_cp", "residuo"}

\* names of columns the dashboard does not name
OtherNames ==
    <<"c01", "c02", "c03", "c04", "c05", "c06", "c07", "c08", "c09", "c10",
      "c11", "c12", "c13", "c14", "c15", "c16", "c17", "c18", "c19", "c20",
      "c21", "c22", "c23", "c24", "c25", "c26", "c27", "c28", "c29", "c30">>

\* the order of the columns in a sheet: the unnamed ones first, then the
\* named ones
SheetOrder ==
    OtherNames \o <<"fecha", "cliente", "comercial", "cierre", "req", "obs",
                    "residuo", "vlr_unit", "valor", "total", "peso_cp">>

\* df.columns.tolist()
Columns(df) == SelectSeq(SheetOrder, LAMBDA c : c \in df.cols)

\* df[mask]: the rows satisfying Keep, in order
Filter(rows, Keep(_)) == SelectSeq(rows, Keep)

\* Series.sum(): NaN is skipped
ColSum(rows) ==
    SumSeq([i \in 1..Len(rows) |->
              IF IsNull(rows[i].valor) THEN 0 ELSE rows[i].valor.v])

\* Series.dropna().unique().tolist() of a text column
Options(rows, col) ==
    LET nn == SelectSeq(rows, LAMBDA r : ~IsNull(r[col]))
    IN  Unique([i \in 1..Len(nn) |-> nn[i][col].v])

(***************************************************************************)
(* render_search_export_tab: the filters                                   *)
(***************************************************************************)
\* str.lower() of one character
Lower(c) == CASE c = "A" -> "a" [] c = "B" -> "b" [] OTHER -> c

\* re.compile(pat): a "(" that is never closed is an error
RegexCompiles(pat) == \A k \in 1..Len(pat) : pat[k] # "("

\* re.search(pat, s, re.IGNORECASE) for a pattern of literals and ".":
\* some window of s matches pat position by position, "." matching any
\* character
RegexSearch(pat, s) ==
    \E i \in 0..(Len(s) - Len(pat)) :
        \A k \in 1..Len(pat) :
            pat[k] = "." \/ Lower(pat[k]) = Lower(s[i + k])

\* whether Series.str is available: the column holds text.  A column with
\* no text cell is parsed as float64 and .str raises AttributeError.
HasStrAccessor(rows) == \E i \in 1..Len(rows) : rows[i].cliente.t = "str"

\* the client cells that str.contains(pat, case=False, na=False) keeps
\* (regex=True is the default)
StrContains(pat, c) == ~IsNull(c) /\ RegexSearch(pat, c.v)

\* lines 182-189: "ok", or the exception the filter ends with
TextFilterOutcome(df, text) ==
    IF text = <<>> THEN "off"
    ELSE IF "cliente" \notin df.cols THEN "KeyError"
    ELSE IF ~HasStrAccessor(df.rows) \/ ~RegexCompiles(text) THEN "Exception"
    ELSE "ok"

\* lines 182-189: the client filter applied to the rows
TextFilter(df, rows, text) ==
    IF TextFilterOutcome(df, text) = "ok"
    THEN Filter(rows, LAMBDA r : StrContains(text, r.cliente))
    ELSE rows

\* lines 196, 220: ["Todos"] + df_original[col].dropna().unique().tolist()
SelectOptions(df, col) == <<"Todos">> \o Options(df.rows, col)

\* lines 198-200, 221-223: the preselected value of a selectbox
SelectPreselect(stored, opts) ==
    IF stored \in Range(opts) THEN stored ELSE "Todos"

\* lines 209-210, 232-233: df_filtrado[df_filtrado[col] == sel]
SelectFilter(rows, col, sel) ==
    IF sel # "Todos"
    THEN Filter(rows, LAMBDA r : ~IsNull(r[col]) /\ r[col].v = sel)
    ELSE rows

\* lines 244, 266: df_original[col].dropna().unique().tolist()
MultiOptions(df, col) == Options(df.rows, col)

\* the previous selections as they were stored (used to test that C9
\* depends on the check against the current options)
MultiPreselectStored(stored, opts) == stored

\* lines 246, 267: the previous selections that still exist
MultiPreselect(stored, opts) == SelectSeq(stored, LAMBDA x : x \in Range(opts))

\* isin(sel) applied whatever the selection: what lines 255 and 276 would do
\* without their `if` (used to test that C3 depends on the guard)
MultiFilterUnguarded(rows, col, sel) ==
    Filter(rows, LAMBDA r : ~IsNull(r[col]) /\ r[col].v \in Range(sel))

\* lines 255-256, 276-277: df_filtrado[df_filtrado[col].isin(sel)]
MultiFilter(rows, col, sel) ==
    IF sel # <<>>
    THEN Filter(rows, LAMBDA r : ~IsNull(r[col]) /\ r[col].v \in Range(sel))
    ELSE rows

\* Timestamp.date(): the day of a timestamp
DayOf(ts) == ts \div HoursPerDay

\* pd.to_datetime(date): midnight of a day
Midnight(day) == day * HoursPerDay

\* the non-null timestamps of the date column after coercion
Timestamps(rows) ==
    {safe_to_datetime(rows[i].fecha).v :
        i \in {j \in 1..Len(rows) : ~IsNull(safe_to_datetime(rows[j].fecha))}}

SetMin(S) == CHOOSE x \in S : \A y \in S : x <= y
SetMax(S) == CHOOSE x \in S : \A y \in S : x >= y

\* lines 287-294, 843-850: what st.date_input can return: nothing, one day,
\* or a range of days, all between min_value and max_value.  The days tried
\* are those of the data and their neighbours.
DateInputs(rows) ==
    IF Timestamps(rows) = {} THEN {<<>>}
    ELSE LET lo == DayOf(SetMin(Timestamps(rows)))
             hi == DayOf(SetMax(Timestamps(rows)))
             days == {d \in lo..hi :
                        \E ts \in Timestamps(rows) : DayOf(ts) \in {d - 1, d, d + 1}}
         IN  {<<>>} \cup {<<d>> : d \in days}
                    \cup {<<a, b>> : a, b \in days}

\* the range without the day added to its end (used to test that C4 depends
\* on line 299)
InDateRangeToMidnight(c, inicio, fin) ==
    /\ ~IsNull(c)
    /\ c.v >= Midnight(inicio)
    /\ c.v < Midnight(fin)

\* lines 298-303, 852-856: fecha_inicio_dt <= date < fecha_fin_dt
InDateRange(c, inicio, fin) ==
    /\ ~IsNull(c)
    /\ c.v >= Midnight(inicio)
    /\ c.v < Midnight(fin) + HoursPerDay

\* a date-range filter that also drops the first row it finds in the range
\* (used to test that C10 tells a filter that is not idempotent)
DateFilterButFirst(rows, rango) ==
    IF Len(rango) = 2
    THEN LET kept == Filter(rows, LAMBDA r : InDateRange(r.fecha, rango[1], rango[2]))
         IN  IF kept = <<>> THEN kept ELSE Tail(kept)
    ELSE rows

\* a date-range filter that takes a single date as a range of one day
DateFilterSingleDay(rows, rango) ==
    IF rango # <<>>
    THEN Filter(rows, LAMBDA r : InDateRange(r.fecha, rango[1], rango[Len(rango)]))
    ELSE rows

\* lines 295-303: the date-range filter of the search tabs
DateFilter(rows, rango) ==
    IF Len(rango) = 2
    THEN Filter(rows, LAMBDA r : InDateRange(r.fecha, rango[1], rango[2]))
    ELSE rows

(***************************************************************************)
(* Aggregation                                                             *)
(***************************************************************************)
\* ord() of a character
Ord(c) ==
    CASE c = "(" -> 40 [] c = "." -> 46 [] c = "A" -> 65 [] c = "B" -> 66
      [] c = "a" -> 97 [] c = "b" -> 98

\* s < t for two client names
RECURSIVE NameLess(_, _)
NameLess(s, t) ==
    IF t = <<>> THEN FALSE
    ELSE IF s = <<>> THEN TRUE
    ELSE IF Head(s) # Head(t) THEN Ord(Head(s)) < Ord(Head(t))
    ELSE NameLess(Tail(s), Tail(t))

\* the texts of the categorical columns, in str order
Alphabetical ==
    <<"Abierto", "Ana", "Cerrado", "Luis", "O1", "O2", "R1", "R2", "Todos">>

StrRank(s) == CHOOSE i \in 1..Len(Alphabetical) : Alphabetical[i] = s

\* s < t for two period keys (str order of zero-padded numbers)
RECURSIVE PeriodLess(_, _)
PeriodLess(s, t) ==
    IF t = <<>> THEN FALSE
    ELSE IF s = <<>> THEN TRUE
    ELSE IF Head(s) # Head(t) THEN Head(s) < Head(t)
    ELSE PeriodLess(Tail(s), Tail(t))

\* a < b for two keys of a grouping column
KeyLess(col, a, b) ==
    CASE col = "cliente" -> NameLess(a, b)
      [] col = "periodo" -> PeriodLess(a, b)
      [] col = "mes" -> a < b
      [] OTHER -> StrRank(a) < StrRank(b)

\* the keys of S in increasing order: groupby sorts its group keys
RECURSIVE SortKeys(_, _)
SortKeys(col, S) ==
    IF S = {} THEN <<>>
    ELSE LET m == CHOOSE x \in S : \A y \in S \ {x} : KeyLess(col, x, y)
         IN  <<m>> \o SortKeys(col, S \ {m})

\* the keys groupby(col) groups by: rows whose key is null are dropped
\* (dropna=True is the default)
GroupKeys(rows, col) ==
    {rows[i][col].v : i \in {j \in 1..Len(rows) : ~IsNull(rows[j][col])}}

\* df.groupby(col, as_index=False)[value_col].sum(): one entry per key, in
\* key order, holding the sum of the values of the rows with that key
GroupBySum(rows, col) ==
    LET keys == SortKeys(col, GroupKeys(rows, col))
    IN  [i \in 1..Len(keys) |->
           [key |-> keys[i],
            sum |-> ColSum(Filter(rows,
                       LAMBDA r : ~IsNull(r[col]) /\ r[col].v = keys[i]))]]

\* the sum of the sums of an aggregation
GroupTotal(groups) == SumSeq([i \in 1..Len(groups) |-> groups[i].sum])

\* g inserted into a list sorted by decreasing sum, after its equals
RECURSIVE InsertDesc(_, _)
InsertDesc(g, sorted) ==
    IF sorted = <<>> THEN <<g>>
    ELSE IF g.sum > Head(sorted).sum THEN <<g>> \o sorted
    ELSE <<Head(sorted)>> \o InsertDesc(g, Tail(sorted))

\* sort_values(by=value_col, ascending=False)
RECURSIVE SortDesc(_)
SortDesc(groups) ==
    IF groups = <<>> THEN <<>>
    ELSE InsertDesc(groups[Len(groups)],
                    SortDesc(SubSeq(groups, 1, Len(groups) - 1)))

\* Series.cumsum()
CumSum(groups) ==
    [i \in 1..Len(groups) |-> GroupTotal(SubSeq(groups, 1, i))]

\* line 364: the Pareto is computed when there are groups and their total
\* is positive
ParetoComputed(groups) == groups # <<>> /\ GroupTotal(groups) > 0

\* line 365: cumsum() / sum() * 100, entry by entry, as exact ratios
ParetoAcumulado(sorted) ==
    [i \in 1..Len(sorted) |->
        [num |-> CumSum(sorted)[i] * 100, den |-> GroupTotal(sorted)]]

(***************************************************************************)
(* render_search_export_tab                                                *)
(***************************************************************************)
\* the key prefixes of the two search tabs
SearchPrefixes == {"buscar_respel", "buscar_aprov"}

\* st.session_state of a search tab before any run: no key is set
NoSelections == [cierre |-> <<>>, comercial |-> <<>>, req |-> <<>>, obs |-> <<>>]

\* lines 193-194, 217-218, 241-242, 263-264: a key that is not set yet is
\* set to its default before it is read
Stored(entry, default) == IF entry = <<>> THEN default ELSE entry[1]

\* lines 174-176: df_original, the copy with date and value coerced
CoerceRows(rows) ==
    [i \in 1..Len(rows) |->
        [rows[i] EXCEPT !.fecha = safe_to_datetime(@),
                        !.valor = safe_to_numeric(@)]]

\* the table passed to a tab if the coerced columns were assigned to it and
\* not to a copy of it
SourceAliased(df, coerced) == [df EXCEPT !.rows = coerced]

\* lines 50, 174, 652, 751, 833: df.copy(): the coerced and the derived
\* columns are assigned to the copy, so the table passed in is left with the
\* cells it had
SourceAfter(df, coerced) == df

\* the sheets after a tab has rendered sheet `name`
SheetsAfter(all, name) ==
    [all EXCEPT ![name] = SourceAfter(@, CoerceRows(@.rows))]

\* what the export widgets and the installation can give: the columns
\* picked in the multiselect (all of them by default), whether the
\* xlsxwriter engine of pd.ExcelWriter can be used, and whether it accepts
\* a column width that is not a number
ExportGestures == [sel : {"todas", "ninguna", "sin_valor", "sin_primera"},
                   engine : BOOLEAN, nan_width : BOOLEAN]
DefaultExport == {[sel |-> "todas", engine |-> TRUE, nan_width |-> TRUE]}

\* lines 402-408: columnas_seleccionadas_export
Selection(df, sel) ==
    CASE sel = "todas" -> Columns(df)
      [] sel = "ninguna" -> <<>>
      [] sel = "sin_valor" -> SelectSeq(Columns(df), LAMBDA c : c # "valor")
      [] sel = "sin_primera" -> SubSeq(Columns(df), 2, Len(Columns(df)))

ExportInputs(df, G) ==
    {[columnas |-> Selection(df, g.sel), engine |-> g.engine,
      nan_width |-> g.nan_width] : g \in G}

\* what the widgets of a search tab can return for a sheet
SearchInputs(df, Texts, G) ==
    [text : Texts,
     export : ExportInputs(df, G),
     cierre : IF "cierre" \in df.cols
              THEN Range(SelectOptions(df, "cierre")) ELSE {"Todos"},
     comercial : IF "comercial" \in df.cols
                 THEN Range(SelectOptions(df, "comercial")) ELSE {"Todos"},
     req : IF "req" \in df.cols
           THEN SubLists(MultiOptions(df, "req")) ELSE {<<>>},
     obs : IF "obs" \in df.cols
           THEN SubLists(MultiOptions(df, "obs")) ELSE {<<>>},
     rango : DateInputs(df.rows)]

\* the retained selections as the tab reads them
Previous(sel) ==
    [cierre |-> Stored(sel.cierre, "Todos"),
     comercial |-> Stored(sel.comercial, "Todos"),
     req |-> Stored(sel.req, <<>>),
     obs |-> Stored(sel.obs, <<>>)]

\* the options of the four retained filters; none for a missing column
\* (the KeyError is caught and the filter is skipped)
SearchOptions(df) ==
    [cierre |-> IF "cierre" \in df.cols THEN SelectOptions(df, "cierre") ELSE <<>>,
     comercial |-> IF "comercial" \in df.cols THEN SelectOptions(df, "comercial") ELSE <<>>,
     req |-> IF "req" \in df.cols THEN MultiOptions(df, "req") ELSE <<>>,
     obs |-> IF "obs" \in df.cols THEN MultiOptions(df, "obs") ELSE <<>>]

\* the value each retained filter shows before the user touches it
Preselected(prev, opts) ==
    [cierre |-> SelectPreselect(prev.cierre, opts.cierre),
     comercial |-> SelectPreselect(prev.comercial, opts.comercial),
     req |-> MultiPreselect(prev.req, opts.req),
     obs |-> MultiPreselect(prev.obs, opts.obs)]

\* the stored selections if a selection, once made, were kept whatever
\* the widgets return afterwards
RetainedOnce(df, prev, in) ==
    [cierre |-> <<IF prev.cierre = "Todos" THEN in.cierre ELSE prev.cierre>>,
     comercial |-> <<IF prev.comercial = "Todos" THEN in.comercial ELSE prev.comercial>>,
     req |-> <<IF prev.req = <<>> THEN in.req ELSE prev.req>>,
     obs |-> <<IF prev.obs = <<>> THEN in.obs ELSE prev.obs>>]

\* lines 208, 231, 254, 275: the selection is stored once the widget has
\* returned; a missing column leaves the key as it was
Retained(df, prev, in) ==
    [cierre |-> <<IF "cierre" \in df.cols THEN in.cierre ELSE prev.cierre>>,
     comercial |-> <<IF "comercial" \in df.cols THEN in.comercial ELSE prev.comercial>>,
     req |-> <<IF "req" \in df.cols THEN in.req ELSE prev.req>>,
     obs |-> <<IF "obs" \in df.cols THEN in.obs ELSE prev.obs>>]

\* the filters each applied to the source table instead of the result of
\* the one before, so that the last one wins
FilterChainFromSource(df, in, orig) ==
    LET t1 == TextFilter(df, orig, in.text)
        t2 == SelectFilter(orig, "cierre",
                           IF "cierre" \in df.cols THEN in.cierre ELSE "Todos")
        t3 == SelectFilter(orig, "comercial",
                           IF "comercial" \in df.cols THEN in.comercial ELSE "Todos")
        t4 == MultiFilter(orig, "req", IF "req" \in df.cols THEN in.req ELSE <<>>)
        t5 == MultiFilter(orig, "obs", IF "obs" \in df.cols THEN in.obs ELSE <<>>)
        t6 == DateFilter(t5, IF Timestamps(orig) # {} THEN in.rango ELSE <<>>)
    IN  [original |-> orig, por_texto |-> t1, por_cierre |-> t2, por_comercial |-> t3,
         por_req |-> t4, por_obs |-> t5, filtrado |-> t6]

\* lines 178-303: the filters in their order, each applied to the result of
\* the one before
FilterChain(df, in, orig) ==
    LET t1 == TextFilter(df, orig, in.text)
        t2 == SelectFilter(t1, "cierre",
                           IF "cierre" \in df.cols THEN in.cierre ELSE "Todos")
        t3 == SelectFilter(t2, "comercial",
                           IF "comercial" \in df.cols THEN in.comercial ELSE "Todos")
        t4 == MultiFilter(t3, "req", IF "req" \in df.cols THEN in.req ELSE <<>>)
        t5 == MultiFilter(t4, "obs", IF "obs" \in df.cols THEN in.obs ELSE <<>>)
        t6 == DateFilter(t5, IF Timestamps(orig) # {} THEN in.rango ELSE <<>>)
    IN  [original |-> orig, por_texto |-> t1, por_cierre |-> t2, por_comercial |-> t3,
         por_req |-> t4, por_obs |-> t5, filtrado |-> t6]

\* lines 360-398: the per-client aggregation and its Pareto
ClienteChart(df, filtrado) ==
    IF "cliente" \in df.cols THEN SortDesc(GroupBySum(filtrado, "cliente")) ELSE <<>>

\* lines 365: '% Acumulado', when it is computed
Pareto(df_cliente) ==
    IF ParetoComputed(df_cliente) THEN ParetoAcumulado(df_cliente) ELSE <<>>

\* lines 819-820, 923-924: the parameters of the exporter in the two tabs
other_numeric_cols(prefix) ==
    IF prefix = "buscar_respel" THEN {"vlr_unit", "total"}
    ELSE {"vlr_unit", "total", "peso_cp"}
pivot_agg_cols(prefix) == IF prefix = "buscar_respel" THEN {} ELSE {"peso_cp"}

\* chr(): the character of a code point from 65 on (two of them by name)
Chars ==
    <<"A", "B", "C", "D", "E", "F", "G", "H", "I", "J", "K", "L", "M", "N",
      "O", "P", "Q", "R", "S", "T", "U", "V", "W", "X", "Y", "Z", "[", "backslash",
      "]", "^", "_", "backtick", "a", "b", "c", "d", "e", "f", "g", "h", "i", "j",
      "k", "l", "m", "n", "o", "p", "q", "r", "s", "t", "u", "v", "w", "x",
      "y", "z">>
chr(code) == Chars[code - 64]

\* pd.api.types.is_numeric_dtype(df[col].dropna()): the column holds
\* numbers and empty cells only; a filtered table keeps the dtype of the
\* column it was cut from
IsNumericDtype(orig, col) ==
    \A i \in 1..Len(orig) : orig[i][col].t \in {"num", "null"}

\* line 432: the currency columns of the exported table
cols_currency(prefix, columnas) ==
    {"valor"} \cup {c \in other_numeric_cols(prefix) : c \in Range(columnas)}

\* a cell of the total row without a formula
NoFormula(texto) == [t |-> texto, col |-> "", first |-> 0, last |-> 0]

\* lines 449-456: the row after the n data rows: 'TOTAL' in the first
\* cell, then "=SUM(<letter>2:<letter><n+1>)" in the currency columns of
\* numeric dtype, the letter being chr(65 + col_num)
TotalRow(prefix, columnas, orig, n) ==
    [i \in 1..Len(columnas) |->
        IF columnas[i] \in cols_currency(prefix, columnas)
           /\ IsNumericDtype(orig, columnas[i])
        THEN [t |-> "SUM", col |-> chr(65 + (i - 1)), first |-> 2, last |-> n + 1]
        ELSE NoFormula(IF i = 1 THEN "TOTAL" ELSE "")]

\* Series.sum() of a column of the exporter
SumOf(rows, col) ==
    SumSeq([i \in 1..Len(rows) |-> IF rows[i][col].t = "num" THEN rows[i][col].v ELSE 0])

\* lines 471-474: valid_pivot_agg_cols
valid_pivot_agg_cols(df, prefix, orig) ==
    {c \in pivot_agg_cols(prefix) : c \in df.cols /\ IsNumericDtype(orig, c)}

\* lines 479-480: groupby('Residuo').agg(agg_dict), sorted by decreasing
\* value
PivotData(filtrado, valid) ==
    LET g == SortDesc(GroupBySum(filtrado, "residuo"))
    IN  [i \in 1..Len(g) |->
           [key |-> g[i].key, sum |-> g[i].sum,
            otras |-> [c \in valid |->
                         SumOf(Filter(filtrado,
                                 LAMBDA r : ~IsNull(r.residuo) /\ r.residuo.v = g[i].key),
                               c)]]]

\* the pivot sheet without the test of line 468
PivotSheetUnguarded(df, prefix, orig, filtrado) ==
    [t |-> "tabla",
     data |-> PivotData(filtrado, valid_pivot_agg_cols(df, prefix, orig))]

\* lines 464-504: the sheet 'Tabla_Dinamica_Resumen'
PivotSheet(df, prefix, orig, filtrado) ==
    IF "residuo" \in df.cols
    THEN [t |-> "tabla",
          data |-> PivotData(filtrado, valid_pivot_agg_cols(df, prefix, orig))]
    ELSE [t |-> "mensaje", data |-> <<>>]

\* lines 494-496: with no group the width of the pivot columns is
\* max(NaN, len(value)) + 2, which is NaN
NanWidth(pivot) == pivot.t = "tabla" /\ pivot.data = <<>>

\* lines 413-514: the workbook cannot be built
BuildFails(ex, pivot) == ~ex.engine \/ (NanWidth(pivot) /\ ~ex.nan_width)

\* lines 410-517: the export of the filtered table
Export(df, prefix, ex, orig, filtrado) ==
    IF ex.columnas = <<>>
    THEN [estado |-> "sin_columnas"]
    ELSE IF BuildFails(ex, PivotSheet(df, prefix, orig, filtrado))
    THEN [estado |-> "error"]
    ELSE [estado |-> "descarga",
          columnas |-> ex.columnas,
          n |-> Len(filtrado),
          total_row |-> TotalRow(prefix, ex.columnas, orig, Len(filtrado)),
          pivot |-> PivotSheet(df, prefix, orig, filtrado)]

\* the warnings, errors and notes the tab shows
SearchMessages(df, prefix, in, orig, filtrado, df_cliente) ==
    {m \in {"col_cliente", "err_cliente", "col_cierre", "col_comercial",
            "col_req", "col_obs", "sin_fechas", "sin_resultados",
            "pareto_no_generado", "col_torta", "col_pareto",
            "export_error", "sin_columnas"} :
        CASE m = "col_cliente" -> TextFilterOutcome(df, in.text) = "KeyError"
          [] m = "err_cliente" -> TextFilterOutcome(df, in.text) = "Exception"
          [] m = "col_cierre" -> "cierre" \notin df.cols
          [] m = "col_comercial" -> "comercial" \notin df.cols
          [] m = "col_req" -> "req" \notin df.cols
          [] m = "col_obs" -> "obs" \notin df.cols
          [] m = "sin_fechas" -> Timestamps(orig) = {}
          [] m = "sin_resultados" -> filtrado = <<>>
          [] m = "pareto_no_generado" ->
                /\ filtrado # <<>> /\ "cliente" \in df.cols
                /\ df_cliente # <<>> /\ ~ParetoComputed(df_cliente)
          [] m = "export_error" ->
                /\ filtrado # <<>> /\ in.export.columnas # <<>>
                /\ BuildFails(in.export, PivotSheet(df, prefix, orig, filtrado))
          [] m = "sin_columnas" -> filtrado # <<>> /\ in.export.columnas = <<>>
          [] m = "col_torta" -> filtrado # <<>> /\ "comercial" \notin df.cols
          [] m = "col_pareto" -> filtrado # <<>> /\ "cliente" \notin df.cols}

\* lines 308-398: what is shown for the filtered table
SearchResults(df, prefix, in, prev, opts, chain, df_cliente) ==
    [tab |-> prefix,
     shown |-> IF chain.filtrado # <<>> THEN "resultados" ELSE "sin_resultados",
     in |-> in, prev |-> prev, opts |-> opts, presel |-> Preselected(prev, opts),
     chain |-> chain,
     total |-> ColSum(chain.filtrado),
     df_comercial |-> IF "comercial" \in df.cols
                      THEN GroupBySum(chain.filtrado, "comercial") ELSE <<>>,
     df_cliente |-> df_cliente,
     pareto |-> Pareto(df_cliente),
     export |-> IF chain.filtrado # <<>>
                THEN Export(df, prefix, in.export, chain.original, chain.filtrado)
                ELSE [estado |-> "sin_resultados"],
     msgs |-> SearchMessages(df, prefix, in, chain.original, chain.filtrado, df_cliente)]

\* the session state if the keys were not prefixed: one set of keys that
\* both search tabs write
StoreUnprefixed(state, key_prefix, sel) == [p \in DOMAIN state |-> sel]

\* lines 193-194, 208, 217-218, 231, 241-242, 254, 263-264, 275: the keys
\* f"{key_prefix}_cierre_sel", "_comercial_sel", "_req_sel" and "_obs_sel"
\* of st.session_state, written by the tab that was given key_prefix
StoreSelections(state, key_prefix, sel) == [state EXCEPT ![key_prefix] = sel]

\* lines 168-523 up to the charts: everything the tab computes from the
\* sheet, the retained selections and the values the widgets return
SearchTab(df, prefix, sel, in) ==
    IF IsEmpty(df)
    THEN [raised |-> FALSE, sel |-> sel,
          view |-> [tab |-> prefix, shown |-> "sin_datos"]]
    ELSE IF "fecha" \notin df.cols \/ "valor" \notin df.cols
    THEN [raised |-> TRUE, sel |-> sel,
          view |-> [tab |-> prefix, shown |-> "KeyError"]]
    ELSE LET chain == FilterChain(df, in, CoerceRows(df.rows))
         IN  [raised |-> FALSE,
              sel |-> Retained(df, Previous(sel), in),
              view |-> SearchResults(df, prefix, in, Previous(sel), SearchOptions(df),
                                     chain, ClienteChart(df, chain.filtrado))]

(***************************************************************************)
(* Period bucketing: render_summary_tab and the Enviados tab               *)
(***************************************************************************)
Granularities == {"Día", "Mes", "Año"}

\* the calendar of a timestamp
YearOf(ts) == BaseYear + (DayOf(ts) \div DaysPerMonth) \div MonthsPerYear
MonthOf(ts) == ((DayOf(ts) \div DaysPerMonth) % MonthsPerYear) + 1
DayOfMonth(ts) == (DayOf(ts) % DaysPerMonth) + 1

\* the period key that is the year whatever the granularity
PeriodoByYear(opcion, ts) == <<YearOf(ts)>>

\* lines 68-74, 666-671: the period key of a timestamp, as the numbers its
\* text is made of: "YYYY-MM-DD", "YYYY-MM" or "YYYY"
Periodo(opcion, ts) ==
    CASE opcion = "Día" -> <<YearOf(ts), MonthOf(ts), DayOfMonth(ts)>>
      [] opcion = "Mes" -> <<YearOf(ts), MonthOf(ts)>>
      [] opcion = "Año" -> <<YearOf(ts)>>

\* lines 50-53, 652-658, 751-757: coerce, then dropna(subset=[date, value])
DropInvalid(rows) ==
    Filter(CoerceRows(rows), LAMBDA r : ~IsNull(r.fecha) /\ ~IsNull(r.valor))

\* the rows with their 'Periodo' column
WithPeriodo(rows, opcion) ==
    [i \in 1..Len(rows) |->
        [f \in DOMAIN rows[i] \cup {"periodo"} |->
            IF f = "periodo" THEN Str(Periodo(opcion, rows[i].fecha.v))
            ELSE rows[i][f]]]

\* lines 80-82, 677: groupby('Periodo').sum(), sorted by 'Periodo'
Resumen(rows, opcion) == GroupBySum(WithPeriodo(rows, opcion), "periodo")

\* line 93, 693: resumen[resumen['Periodo'].isin(seleccion)]
PeriodosIsin(resumen, seleccion) ==
    SelectSeq(resumen, LAMBDA g : g.key \in Range(seleccion))

\* the period keys of a summary, in its order
Periodos(resumen) == [i \in 1..Len(resumen) |-> resumen[i].key]

\* what the widgets of a summary tab can return for a sheet
SummaryInputs(df) ==
    UNION {[opcion : {o},
            seleccion : SubLists(Periodos(Resumen(DropInvalid(df.rows), o)))] :
           o \in Granularities}

\* lines 40-147: render_summary_tab
SummaryTab(df, prefix, in) ==
    LET proc == DropInvalid(df.rows)
        resumen == Resumen(proc, in.opcion)
        filtrado == PeriodosIsin(resumen, in.seleccion)
    IN  IF IsEmpty(df)
        THEN [raised |-> FALSE, view |-> [tab |-> prefix, shown |-> "sin_datos"]]
        ELSE IF "fecha" \notin df.cols \/ "valor" \notin df.cols
        THEN [raised |-> TRUE, view |-> [tab |-> prefix, shown |-> "KeyError"]]
        ELSE IF proc = <<>>
        THEN [raised |-> FALSE, view |-> [tab |-> prefix, shown |-> "sin_validos"]]
        ELSE [raised |-> FALSE,
              view |-> [tab |-> prefix, shown |-> "resumen", in |-> in,
                        procesado |-> proc,
                        resumen |-> resumen,
                        disponibles |-> Periodos(resumen),
                        resumen_filtrado |-> filtrado,
                        total_seleccionado |-> GroupTotal(filtrado),
                        total_general |-> ColSum(proc),
                        grafico_vacio |-> filtrado = <<>>]]

\* lines 646-725: the Enviados tab
EnviadosTab(df, in) ==
    LET proc == DropInvalid(df.rows)
        resumen == Resumen(proc, in.opcion)
    IN  IF IsEmpty(df)
        THEN [raised |-> FALSE, view |-> [tab |-> "enviados", shown |-> "sin_datos"]]
        ELSE IF "fecha" \notin df.cols \/ "valor" \notin df.cols
        THEN [raised |-> TRUE, view |-> [tab |-> "enviados", shown |-> "KeyError"]]
        ELSE IF proc = <<>>
        THEN [raised |-> FALSE, view |-> [tab |-> "enviados", shown |-> "sin_validos"]]
        ELSE [raised |-> FALSE,
              view |-> [tab |-> "enviados", shown |-> "resumen", in |-> in,
                        procesado |-> proc,
                        resumen |-> resumen,
                        disponibles |-> Periodos(resumen),
                        total_general_enviados |-> GroupTotal(resumen),
                        \* lines 692-695: shown only for a non-empty selection
                        total_seleccionado |->
                            IF in.seleccion # <<>>
                            THEN <<GroupTotal(PeriodosIsin(resumen, in.seleccion))>>
                            ELSE <<>>,
                        total_general |-> ColSum(proc)]]

(***************************************************************************)
(* The Metas tab: targets against actuals.  The targets sheet is wide:     *)
(* [names, cells], the column names in order and, per row, one cell per    *)
(* column.                                                                 *)
(***************************************************************************)
EmptyMetas == [names |-> <<>>, cells |-> <<>>]

\* lines 741-742
meses_ordenados ==
    <<"Enero", "Febrero", "Marzo", "Abril", "Mayo", "Junio",
      "Julio", "Agosto", "Septiembre", "Octubre", "Noviembre", "Diciembre">>

\* a mapping that takes a name that is not a key for the first month
mes_a_numero_o_primero(mes) ==
    IF mes \in Range(meses_ordenados)
    THEN CHOOSE i \in 1..Len(meses_ordenados) : meses_ordenados[i] = mes
    ELSE 1

\* lines 744-745: Series.map(mes_a_numero), 0 standing for the NaN of a
\* name that is not a key
mes_a_numero(mes) ==
    IF mes \in Range(meses_ordenados)
    THEN CHOOSE i \in 1..Len(meses_ordenados) : meses_ordenados[i] = mes
    ELSE 0

\* line 740: df_metas.melt(): one (Mes, Meta) row per cell, column by column
Melt(metas) ==
    LET n == Len(metas.cells)
    IN  [k \in 1..(Len(metas.names) * n) |->
            [Mes |-> metas.names[((k - 1) \div n) + 1],
             Meta |-> metas.cells[((k - 1) % n) + 1][((k - 1) \div n) + 1]]]

\* lines 745-748: the target rows whose month name is recognised, with
\* their month number
MetasLong(metas) ==
    LET long == SelectSeq(Melt(metas), LAMBDA r : mes_a_numero(r.Mes) # 0)
    IN  [i \in 1..Len(long) |->
            [Mes |-> long[i].Mes, Meta |-> long[i].Meta,
             Mes_Numero |-> mes_a_numero(long[i].Mes)]]

\* the actuals summed by month for the rows of the first year only, as if
\* the key were the year and the month
FacturadoPorMesPrimerAnio(rows) ==
    LET proc == SelectSeq(DropInvalid(rows), LAMBDA r : YearOf(r.fecha.v) = BaseYear)
        conMes == [i \in 1..Len(proc) |->
                     [f \in DOMAIN proc[i] \cup {"mes"} |->
                        IF f = "mes" THEN Num(MonthOf(proc[i].fecha.v))
                        ELSE proc[i][f]]]
    IN  GroupBySum(conMes, "mes")

\* lines 751-762: the valid actual rows summed by the month of their date
FacturadoPorMes(rows) ==
    LET proc == DropInvalid(rows)
        conMes == [i \in 1..Len(proc) |->
                     [f \in DOMAIN proc[i] \cup {"mes"} |->
                        IF f = "mes" THEN Num(MonthOf(proc[i].fecha.v))
                        ELSE proc[i][f]]]
    IN  GroupBySum(conMes, "mes")

\* the position of a month in the aggregation taken for its month number
\* (used to test that C6 depends on the merge key)
FacturadoByPosition(porMes, mes) ==
    IF mes <= Len(porMes) THEN porMes[mes].sum ELSE 0

\* lines 765-766: the actual of a month after the left merge and fillna(0)
Facturado(porMes, mes) ==
    IF \E i \in 1..Len(porMes) : porMes[i].key = mes
    THEN porMes[CHOOSE i \in 1..Len(porMes) : porMes[i].key = mes].sum
    ELSE 0

\* bool(x) of a target cell: 0 is false; NaN and any text are true
Truthy(c) == ~(c.t = "num" /\ c.v = 0)

\* facturado / meta * 100: NaN for a NaN target, a TypeError for a text; for
\* a target of 0 no number (inf or NaN on numpy floats, ZeroDivisionError on Python ones)
Percent(facturado, meta) ==
    IF meta.t = "null" THEN [t |-> "nan", num |-> 0, den |-> 1]
    ELSE IF meta.t = "text" THEN [t |-> "TypeError", num |-> 0, den |-> 1]
    ELSE IF meta.v = 0 THEN [t |-> "div_by_zero", num |-> 0, den |-> 1]
    ELSE [t |-> "num", num |-> facturado * 100, den |-> meta.v]

\* the ratio without the test of the target (used to test that C5 depends
\* on the conditional of line 771)
CumplimientoUnguarded(facturado, meta) == Percent(facturado, meta)

\* lines 770-773: the lambda of '% Cumplimiento'
Cumplimiento(facturado, meta) ==
    IF Truthy(meta) THEN Percent(facturado, meta)
    ELSE [t |-> "num", num |-> 0, den |-> 1]

\* g inserted into a list sorted by month number, after its equals
RECURSIVE InsertByMes(_, _)
InsertByMes(g, sorted) ==
    IF sorted = <<>> THEN <<g>>
    ELSE IF g.Mes_Numero < Head(sorted).Mes_Numero THEN <<g>> \o sorted
    ELSE <<Head(sorted)>> \o InsertByMes(g, Tail(sorted))

\* line 781: comparacion.sort_values('Mes_Numero')
RECURSIVE SortByMes(_)
SortByMes(rs) ==
    IF rs = <<>> THEN <<>>
    ELSE InsertByMes(rs[Len(rs)], SortByMes(SubSeq(rs, 1, Len(rs) - 1)))

\* the positions of the rows of the aggregation whose key is a month number
Matches(porMes, mes) ==
    SelectSeq([k \in 1..Len(porMes) |-> k], LAMBDA k : porMes[k].key = mes)

\* lines 765-773: a row of the merge, a target row g next to the row of the
\* aggregation it has matched, or next to none
JoinRow(g, matched) ==
    [Mes |-> g.Mes, Mes_Numero |-> g.Mes_Numero, Meta |-> g.Meta,
     Facturado |-> Facturado(matched, g.Mes_Numero),
     Cumplimiento |-> Cumplimiento(Facturado(matched, g.Mes_Numero), g.Meta)]

\* the rows a target row gives in a left merge: one for each match, and one
\* without actual when it has no match
JoinRows(g, porMes) ==
    LET ks == Matches(porMes, g.Mes_Numero)
    IN  IF ks = <<>> THEN <<JoinRow(g, <<>>)>>
        ELSE [j \in 1..Len(ks) |-> JoinRow(g, <<porMes[ks[j]]>>)]

\* the merge as an inner one: a target row without match is dropped
RECURSIVE MergeInner(_, _)
MergeInner(long, porMes) ==
    IF long = <<>> THEN <<>>
    ELSE (IF Matches(porMes, Head(long).Mes_Numero) = <<>> THEN <<>>
          ELSE JoinRows(Head(long), porMes))
         \o MergeInner(Tail(long), porMes)

\* line 765: pd.merge(df_metas_long, facturado_por_mes, on='Mes_Numero',
\* how='left'), in the order of the target rows
RECURSIVE MergeLeft(_, _)
MergeLeft(long, porMes) ==
    IF long = <<>> THEN <<>>
    ELSE JoinRows(Head(long), porMes) \o MergeLeft(Tail(long), porMes)

\* lines 765-781: the comparison table
Comparacion(metas, rows) ==
    SortByMes(MergeLeft(MetasLong(metas), FacturadoPorMes(rows)))

\* lines 728-806: the Metas tab
MetasTab(metas, df) ==
    LET long == MetasLong(metas)
    IN  IF metas.names = <<>> \/ metas.cells = <<>> \/ IsEmpty(df)
        THEN [raised |-> FALSE, view |-> [tab |-> "metas", shown |-> "faltan_datos"]]
        ELSE IF "fecha" \notin df.cols \/ "valor" \notin df.cols
        THEN [raised |-> FALSE, view |-> [tab |-> "metas", shown |-> "KeyError"]]
        \* a text cell as target: float / str raises TypeError
        ELSE IF \E i \in 1..Len(long) : long[i].Meta.t = "text"
        THEN [raised |-> FALSE, view |-> [tab |-> "metas", shown |-> "Exception"]]
        ELSE [raised |-> FALSE,
              view |-> [tab |-> "metas", shown |-> "comparacion",
                        metas_long |-> long,
                        facturado_por_mes |-> FacturadoPorMes(df.rows),
                        comparacion |-> Comparacion(metas, df.rows)]]

(***************************************************************************)
(* The "Así va facturación" tab                                            *)
(***************************************************************************)
\* lines 855-856: the date-range filter of the tab
AsiVamosDateFilter(rows, rango) ==
    Filter(rows, LAMBDA r : InDateRange(r.fecha, rango[1], rango[2]))

\* lines 825-899
AsiVamosTab(df, in) ==
    LET proc == CoerceRows(df.rows)
        filtrado == IF Timestamps(proc) # {}
                    THEN AsiVamosDateFilter(proc, in.rango) ELSE proc
        por_comercial == SortDesc(GroupBySum(filtrado, "comercial"))
    IN  IF IsEmpty(df)
        THEN [raised |-> FALSE, view |-> [tab |-> "asivamos", shown |-> "sin_datos"]]
        ELSE IF "fecha" \notin df.cols \/ "valor" \notin df.cols
        THEN [raised |-> TRUE, view |-> [tab |-> "asivamos", shown |-> "KeyError"]]
        \* line 844: the two names take a range of exactly two dates
        ELSE IF Timestamps(proc) # {} /\ Len(in.rango) # 2
        THEN [raised |-> TRUE, view |-> [tab |-> "asivamos", shown |-> "ValueError"]]
        ELSE IF filtrado = <<>>
        THEN [raised |-> FALSE,
              view |-> [tab |-> "asivamos", shown |-> "sin_resultados", in |-> in,
                        procesado |-> proc, filtrado |-> filtrado]]
        ELSE [raised |-> FALSE,
              view |-> [tab |-> "asivamos",
                        shown |-> IF "comercial" \in df.cols THEN "resultados"
                                  ELSE "sin_columnas",
                        in |-> in, procesado |-> proc, filtrado |-> filtrado,
                        facturacion_comercial |->
                            IF "comercial" \in df.cols THEN por_comercial ELSE <<>>,
                        total_general |->
                            IF "comercial" \in df.cols THEN GroupTotal(por_comercial)
                            ELSE 0]]

(***************************************************************************)
(* The workbooks the model is run on                                       *)
(***************************************************************************)
\* a row with every cell empty, and one with a valid date and value
Blank ==
    [fecha |-> NaN, valor |-> NaN, cliente |-> NoName, comercial |-> NoStr,
     cierre |-> NoStr, req |-> NoStr, obs |-> NoStr]
Plain == [Blank EXCEPT !.fecha = Date(0), !.valor = Num(1)]

\* the sheets with every column and 1..n rows drawn from Rows
SheetsOf(Rows, n) == [cols : {DataCols}, rows : SeqsOf(Rows, 1, n)]

OneRowSheet == [cols |-> DataCols, rows |-> <<Plain>>]
OneTarget == [names |-> <<"Enero">>, cells |-> <<<<Num(1)>>>>]

\* a workbook with one plain row in every sheet, and one whose sheets are
\* all empty (no sheet could be parsed)
PlainBook ==
    [posibles |-> OneRowSheet, enviados |-> OneRowSheet, metas |-> OneTarget,
     asivamos |-> OneRowSheet, aprovechables |-> OneRowSheet]
EmptyBook ==
    [posibles |-> EmptyFrame, enviados |-> EmptyFrame, metas |-> EmptyMetas,
     asivamos |-> EmptyFrame, aprovechables |-> EmptyFrame]

\* the workbooks that are `book` but for sheet `name`, drawn from S
Workbooks(book, name, S) == {[book EXCEPT ![name] = x] : x \in S}

\* client names, and the texts typed in the search box
NameChars == {"a", "B"}
TextChars == {"a", "b", ".", "("}
ClientCells == {NoName} \cup {Name(cs) : cs \in SeqsOf(NameChars, 1, MaxNameLen)}
AllTexts == SeqsOf(TextChars, 0, MaxTextLen)

\* the texts tried on a sheet: on a client column without text every
\* non-empty text ends the same way, so one stands for all of them
FewTexts == {<<>>, <<"a">>}

\* a text of each kind: none, a letter, a wildcard, a pattern that does not
\* compile, two letters
SomeTexts == FewTexts \cup {<<".">>, <<"(">>, <<"a", "b">>}
Texts(df, T) == IF HasStrAccessor(df.rows) THEN T ELSE T \cap FewTexts

TextRows == {[Plain EXCEPT !.cliente = c] : c \in ClientCells}

SelectRows ==
    {[Plain EXCEPT !.cierre = c, !.comercial = m] :
        c \in {NoStr, Str("Abierto"), Str("Todos")}, m \in {NoStr, Str("Ana")}}

MultiRows ==
    {[Plain EXCEPT !.req = q, !.obs = o] :
        q \in {NoStr, Str("R1"), Str("R2")}, o \in {NoStr, Str("O1")}}

\* timestamps: the first and the last hour of three consecutive days
DateCells ==
    {NaN, Junk} \cup {Date(d * HoursPerDay + h) : d \in 0..2, h \in {0, HoursPerDay - 1}}
DateRows == {[Plain EXCEPT !.fecha = f] : f \in DateCells}

AggRows ==
    {[Plain EXCEPT !.valor = v, !.cliente = c, !.comercial = m] :
        v \in {NaN, Num(-1), Num(0), Num(2)},
        c \in {NoName, Name(<<"a">>), Name(<<"B">>)},
        m \in {NoStr, Str("Ana")}}

\* the first hour of the k-th month after the month of timestamp 0
MonthStart(k) == k * DaysPerMonth * HoursPerDay

\* targets: the columns of a targets sheet and their cells
MetaColumns ==
    {ns \in SeqsOf({"Enero", "Febrero", "Total"}, 1, MaxMetaCols) :
        \A i, j \in 1..Len(ns) : i # j => ns[i] # ns[j]}
MetaCells == {NaN, Junk, Num(0), Num(1000)}
MetasSheets ==
    UNION {[names : {ns}, cells : SeqsOf([1..Len(ns) -> MetaCells], 1, MaxMetaRows)] :
           ns \in MetaColumns}

\* actuals: January, February and the January of the next year
ActualRows ==
    {[Blank EXCEPT !.fecha = f, !.valor = v] :
        f \in {NaN, Date(MonthStart(0)), Date(MonthStart(1)), Date(MonthStart(MonthsPerYear))},
        v \in {NaN, Num(300), Num(500)}}

\* a targets sheet and two actuals sheets to go with the varying ones
SomeTargets ==
    [names |-> <<"Enero", "Febrero">>, cells |-> <<<<Num(1000), Num(0)>>>>]
SomeActuals ==
    {[cols |-> DataCols,
      rows |-> <<[Blank EXCEPT !.fecha = Date(MonthStart(0)), !.valor = Num(300)],
                 [Blank EXCEPT !.fecha = Date(MonthStart(0)), !.valor = Num(500)]>>],
     [cols |-> DataCols,
      rows |-> <<[Blank EXCEPT !.fecha = Date(MonthStart(1)), !.valor = Num(500)]>>],
     [cols |-> DataCols,
      rows |-> <<[Blank EXCEPT !.fecha = Date(MonthStart(0)), !.valor = Num(300)],
                 [Blank EXCEPT !.fecha = Date(MonthStart(1)), !.valor = Num(500)]>>]}

\* rows whose retained filters have options
SessionRows ==
    {[Plain EXCEPT !.cierre = cq[1], !.req = cq[2]] :
        cq \in {<<NoStr, NoStr>>, <<Str("Abierto"), Str("R1")>>,
                <<Str("Cerrado"), Str("R2")>>}}

\* a row with a value in every column, and the one-row sheets that have
\* every column or lack one of them
FullRow ==
    [fecha |-> Date(0), valor |-> Num(1), cliente |-> Name(<<"a">>),
     comercial |-> Str("Ana"), cierre |-> Str("Abierto"), req |-> Str("R1"),
     obs |-> Str("O1")]
ColumnSheets ==
    {[cols |-> DataCols, rows |-> <<FullRow>>]}
        \cup {[cols |-> DataCols \ {c}, rows |-> <<[FullRow EXCEPT ![c] = Blank[c]]>>] :
                c \in DataCols}

\* one-row sheets whose date and value are texts that the coercion turns
\* into a date and a number, or into nothing
RawSheets ==
    {[cols |-> DataCols, rows |-> <<[Plain EXCEPT !.fecha = f, !.valor = v]>>] :
        f \in {Date(0), DateText(0), Junk}, v \in {Num(1), NumText(1)}}

\* one-row sheets of a search tab with one cierre and one requirement,
\* with the other ones, or without the cierre column
KeptRow(cierre, req) == [Plain EXCEPT !.cierre = Str(cierre), !.req = Str(req)]
KeptSheets ==
    {[cols |-> DataCols, rows |-> <<KeptRow("Abierto", "R1")>>],
     [cols |-> DataCols, rows |-> <<KeptRow("Cerrado", "R2")>>]}
StaleSheets ==
    {EmptyFrame,
     [cols |-> DataCols \ {"cierre"},
      rows |-> <<[Plain EXCEPT !.req = Str("R2")]>>]}

\* targets sheets of one row whose columns are named with a month, with a
\* month in lower case or with another word, and hold a number or a text
MonthColumnNames ==
    {"Enero", "Febrero", "Marzo", "Abril", "Mayo", "Junio", "Julio", "Agosto",
     "Septiembre", "Octubre", "Noviembre", "Diciembre", "enero", "Total"}
MonthColumns ==
    {ns \in SeqsOf(MonthColumnNames, 1, MaxMonthCols) :
        \A i, j \in 1..Len(ns) : i # j => ns[i] # ns[j]}
MonthSheets ==
    UNION {[names : {ns}, cells : {<<c>> : c \in [1..Len(ns) -> {Num(1000), Junk}]}] :
           ns \in MonthColumns}

\* rows dated in two days of a month, two hours of a day, two months and
\* two years, and one without a date
PeriodRows ==
    {[Plain EXCEPT !.fecha = x[1], !.valor = x[2]] :
        x \in {<<Date(0), Num(100)>>, <<Date(5), Num(200)>>,
               <<Date(HoursPerDay), Num(100)>>,
               <<Date(MonthStart(1) + HoursPerDay), Num(200)>>,
               <<Date(MonthStart(MonthsPerYear)), Num(100)>>,
               <<NaN, Num(100)>>}}

\* rows that differ in client, cierre, requirement and date at once
ConjRows ==
    {[Plain EXCEPT !.cliente = x[1], !.cierre = x[2], !.req = x[3], !.fecha = x[4]] :
        x \in {<<Name(<<"a">>), Str("Abierto"), Str("R1"), Date(0)>>,
               <<Name(<<"a">>), Str("Cerrado"), Str("R1"), Date(HoursPerDay)>>,
               <<Name(<<"B">>), Str("Abierto"), Str("R2"), Date(0)>>,
               <<Name(<<"B">>), Str("Cerrado"), Str("R2"), NaN>>,
               <<Name(<<"a">>), Str("Abierto"), Str("R2"), Date(HoursPerDay)>>,
               <<NoName, Str("Cerrado"), Str("R1"), Date(0)>>}}
\* the texts typed in that family: none, a literal, one that is no regex
ConjTexts == FewTexts \cup {<<"(">>}

\* a row of a sheet that also has the columns of the exporter
ExportRow(vlr_unit, peso_cp, residuo) ==
    Plain @@ [vlr_unit |-> vlr_unit, total |-> NaN, peso_cp |-> peso_cp,
              residuo |-> residuo]

\* sheets with k unnamed columns before the named ones and a 'Vlr Unit'
\* column of numbers or of text
WideRows == {ExportRow(u, NaN, NoStr) : u \in {Num(2), Junk}}
WideSheets ==
    {[cols |-> DataCols \cup {"vlr_unit"} \cup Range(SubSeq(OtherNames, 1, k)),
      rows |-> <<r>>] : k \in 0..MaxOtherCols, r \in WideRows}

\* sheets with or without the columns 'Residuo' and 'Peso CP'
PivotRows ==
    {ExportRow(Num(2), pr[1], pr[2]) :
        pr \in {<<Num(3), Str("R1")>>, <<Num(3), Str("R2")>>,
                <<Junk, Str("R2")>>, <<Num(3), NoStr>>}}
PivotSheets ==
    {[cols |-> DataCols \cup E, rows |-> rows] :
        E \in SUBSET {"residuo", "peso_cp"},
        rows \in SeqsOf(PivotRows, 1, MaxExportRows)}

(***************************************************************************)
(* The run: the tabs are rendered in order, each by one action; pc is the  *)
(* tab to render next.  An exception that leaves a tab ends the run.       *)
(***************************************************************************)
TabOrder ==
    <<"posibles", "enviados", "metas", "buscar_respel", "asivamos",
      "aprovechables", "buscar_aprov", "resumen_comerciales", "done">>

After(tab) == TabOrder[(CHOOSE i \in 1..Len(TabOrder) : TabOrder[i] = tab) + 1]

Goto(tab, raised) == IF raised THEN "aborted" ELSE After(tab)

NoView == [tab |-> "none", shown |-> "inicio"]

\* lines 610-621: the sheets of the uploaded file are parsed one by one; one
\* that cannot be parsed is replaced by an empty table, with a warning in
\* the sidebar
SheetNames == {"posibles", "enviados", "metas", "asivamos", "aprovechables"}

EmptyOf(name) == IF name = "metas" THEN EmptyMetas ELSE EmptyFrame

\* a single try around the whole loop: one sheet that cannot be parsed and
\* none is loaded (used to test that C13 depends on the try of line 614)
LoadAllOrNothing(file) ==
    IF \A n \in SheetNames : file[n].ok
    THEN [dfs |-> [n \in SheetNames |-> file[n].df],
          sidebar |-> [n \in SheetNames |-> "success"]]
    ELSE [dfs |-> [n \in SheetNames |-> EmptyOf(n)],
          sidebar |-> [n \in SheetNames |-> "warning"]]

Load(file) ==
    [dfs |-> [n \in SheetNames |-> IF file[n].ok THEN file[n].df ELSE EmptyOf(n)],
     sidebar |-> [n \in SheetNames |-> IF file[n].ok THEN "success" ELSE "warning"]]

\* a file all of whose sheets parse, into the tables of workbook wb
Parsed(wb) == [n \in SheetNames |-> [ok |-> TRUE, df |-> wb[n]]]

\* the script starts on an uploaded file
InitOnFiles(Files) ==
    /\ archivo \in Files
    /\ sheets = Load(archivo).dfs
    /\ sidebar = Load(archivo).sidebar
    /\ session = [p \in SearchPrefixes |-> NoSelections]
    /\ pc = "posibles"
    /\ view = NoView

InitOn(WB) ==
    /\ archivo \in {Parsed(wb) : wb \in WB}
    /\ sheets = Load(archivo).dfs
    /\ sidebar = Load(archivo).sidebar
    /\ session = [p \in SearchPrefixes |-> NoSelections]
    /\ pc = "posibles"
    /\ view = NoView

\* lines 636-644
TabPosibles ==
    /\ pc = "posibles"
    /\ \E in \in SummaryInputs(sheets.posibles) :
          LET r == SummaryTab(sheets.posibles, "posibles", in)
          IN  view' = r.view /\ pc' = Goto("posibles", r.raised)
    /\ sheets' = SheetsAfter(sheets, "posibles")
    /\ UNCHANGED <<archivo, sidebar, session>>

\* lines 646-725
TabEnviados ==
    /\ pc = "enviados"
    /\ \E in \in SummaryInputs(sheets.enviados) :
          LET r == EnviadosTab(sheets.enviados, in)
          IN  view' = r.view /\ pc' = Goto("enviados", r.raised)
    /\ sheets' = SheetsAfter(sheets, "enviados")
    /\ UNCHANGED <<archivo, sidebar, session>>

\* lines 728-806
TabMetas ==
    /\ pc = "metas"
    /\ LET r == MetasTab(sheets.metas, sheets.asivamos)
       IN  view' = r.view /\ pc' = Goto("metas", r.raised)
    /\ sheets' = SheetsAfter(sheets, "asivamos")
    /\ UNCHANGED <<archivo, sidebar, session>>

\* lines 809-823
TabBuscarRespel(T, G) ==
    /\ pc = "buscar_respel"
    /\ \E in \in SearchInputs(sheets.posibles, Texts(sheets.posibles, T), G) :
          LET r == SearchTab(sheets.posibles, "buscar_respel",
                             session["buscar_respel"], in)
          IN  /\ view' = r.view
              /\ session' = StoreSelections(session, "buscar_respel", r.sel)
              /\ pc' = Goto("buscar_respel", r.raised)
    /\ sheets' = SheetsAfter(sheets, "posibles")
    /\ UNCHANGED <<archivo, sidebar>>

\* lines 825-899
TabAsiVamos ==
    /\ pc = "asivamos"
    /\ \E rango \in DateInputs(sheets.asivamos.rows) :
          LET r == AsiVamosTab(sheets.asivamos, [rango |-> rango])
          IN  view' = r.view /\ pc' = Goto("asivamos", r.raised)
    /\ sheets' = SheetsAfter(sheets, "asivamos")
    /\ UNCHANGED <<archivo, sidebar, session>>

\* lines 902-910
TabAprovechables ==
    /\ pc = "aprovechables"
    /\ \E in \in SummaryInputs(sheets.aprovechables) :
          LET r == SummaryTab(sheets.aprovechables, "aprovechables", in)
          IN  view' = r.view /\ pc' = Goto("aprovechables", r.raised)
    /\ sheets' = SheetsAfter(sheets, "aprovechables")
    /\ UNCHANGED <<archivo, sidebar, session>>

\* lines 912-927
TabBuscarAprov(T, G) ==
    /\ pc = "buscar_aprov"
    /\ \E in \in SearchInputs(sheets.aprovechables, Texts(sheets.aprovechables, T), G) :
          LET r == SearchTab(sheets.aprovechables, "buscar_aprov",
                             session["buscar_aprov"], in)
          IN  /\ view' = r.view
              /\ session' = StoreSelections(session, "buscar_aprov", r.sel)
              /\ pc' = Goto("buscar_aprov", r.raised)
    /\ sheets' = SheetsAfter(sheets, "aprovechables")
    /\ UNCHANGED <<archivo, sidebar>>

\* lines 929-931
TabResumenComerciales ==
    /\ pc = "resumen_comerciales"
    /\ view' = [tab |-> "resumen_comerciales", shown |-> "pendiente"]
    /\ pc' = After("resumen_comerciales")
    /\ UNCHANGED <<archivo, sidebar, sheets, session>>

\* a widget changes: Streamlit runs the script again from the top, with the
\* same file and the same session state
Rerun ==
    /\ pc \in {"done", "aborted"}
    /\ pc' = "posibles"
    /\ view' = NoView
    /\ UNCHANGED <<archivo, sidebar, sheets, session>>

\* line 589: another file is uploaded; the session state is kept
Upload(WB) ==
    /\ pc \in {"done", "aborted"}
    /\ archivo' \in {Parsed(wb) : wb \in WB}
    /\ sheets' = Load(archivo').dfs
    /\ sidebar' = Load(archivo').sidebar
    /\ pc' = "posibles"
    /\ view' = NoView
    /\ UNCHANGED session

\* one step of a run in which the texts typed in the search boxes are
\* drawn from T
Run(T, G) ==
    \/ TabPosibles
    \/ TabEnviados
    \/ TabMetas
    \/ TabBuscarRespel(T, G)
    \/ TabAsiVamos
    \/ TabAprovechables
    \/ TabBuscarAprov(T, G)
    \/ TabResumenComerciales
    \/ Rerun

(***************************************************************************)
(* Specifications: the same run, on different families of workbooks        *)
(***************************************************************************)
\* the client column of 'Posibles' varies
TextWorkbooks == Workbooks(PlainBook, "posibles", SheetsOf(TextRows, MaxTextRows))
SpecText == InitOn(TextWorkbooks) /\ [][Run(AllTexts, DefaultExport)]_vars

\* the categorical columns of 'Posibles' vary
SelectWorkbooks == Workbooks(PlainBook, "posibles", SheetsOf(SelectRows, MaxCatRows))
SpecSelect == InitOn(SelectWorkbooks) /\ [][Run(FewTexts, DefaultExport)]_vars

\* the multi-value columns of 'Posibles' vary
MultiWorkbooks == Workbooks(PlainBook, "posibles", SheetsOf(MultiRows, MaxCatRows))
SpecMulti == InitOn(MultiWorkbooks) /\ [][Run(FewTexts, DefaultExport)]_vars

\* the dates of 'Posibles', or those of 'Así vamos', vary
DateWorkbooks ==
    Workbooks(PlainBook, "posibles", SheetsOf(DateRows, MaxDateRows))
        \cup Workbooks(PlainBook, "asivamos", SheetsOf(DateRows, MaxDateRows))
SpecDate == InitOn(DateWorkbooks) /\ [][Run(FewTexts, DefaultExport)]_vars

\* the values and the grouping columns of 'Posibles' vary
AggWorkbooks == Workbooks(EmptyBook, "posibles", SheetsOf(AggRows, MaxAggRows))
SpecTotals == InitOn(AggWorkbooks) /\ [][Run(FewTexts, DefaultExport)]_vars

\* every filter of the search tab, one family at a time
FilterWorkbooks ==
    Workbooks(EmptyBook, "posibles",
              SheetsOf(TextRows, MaxTextRows) \cup SheetsOf(SelectRows, MaxCatRows)
                \cup SheetsOf(MultiRows, MaxCatRows) \cup SheetsOf(DateRows, MaxDateRows))
SpecFilters == InitOn(FilterWorkbooks) /\ [][Run(SomeTexts, DefaultExport)]_vars

\* each sheet of the file either parses, into a one-row table, or does not
SheetFiles ==
    {[n \in SheetNames |-> [ok |-> n \in ok, df |-> PlainBook[n]]] :
        ok \in SUBSET SheetNames}
SpecSheets == InitOnFiles(SheetFiles) /\ [][Run(FewTexts, DefaultExport)]_vars

\* one sheet of the workbook lacks one of its columns
ColumnWorkbooks ==
    UNION {Workbooks(PlainBook, name, ColumnSheets) :
             name \in {"posibles", "enviados", "asivamos", "aprovechables"}}
SpecColumns == InitOn(ColumnWorkbooks) /\ [][Run(FewTexts, DefaultExport)]_vars

\* the cells of the sheet shared by two tabs need coercion; the file is
\* replaced between render cycles
SourceWorkbooks ==
    UNION {Workbooks(PlainBook, name, RawSheets) :
             name \in {"posibles", "enviados", "asivamos", "aprovechables"}}
SpecSources ==
    InitOn(SourceWorkbooks)
        /\ [][Run(FewTexts, DefaultExport) \/ Upload(SourceWorkbooks)]_vars

\* both search tabs have options to retain; the file is replaced between
\* render cycles by one with other values, without a column or without
\* the sheet
RetainedWorkbooks ==
    {[EmptyBook EXCEPT !.posibles = p, !.aprovechables = a] :
        p \in KeptSheets, a \in KeptSheets \cup StaleSheets}
SpecRetained ==
    InitOn(RetainedWorkbooks)
        /\ [][Run(FewTexts, DefaultExport) \/ Upload(RetainedWorkbooks)]_vars

\* the names of the columns of 'Metas' vary
MonthWorkbooks ==
    {[EmptyBook EXCEPT !.metas = m, !.asivamos = OneRowSheet] : m \in MonthSheets}
SpecMonths == InitOn(MonthWorkbooks) /\ [][Run(FewTexts, DefaultExport)]_vars

\* the dates of 'Posibles' or of 'Enviados' span days, months and years
PeriodWorkbooks ==
    Workbooks(EmptyBook, "posibles", SheetsOf(PeriodRows, MaxPeriodRows))
        \cup Workbooks(EmptyBook, "enviados", SheetsOf(PeriodRows, MaxPeriodRows))
SpecPeriods == InitOn(PeriodWorkbooks) /\ [][Run(FewTexts, DefaultExport)]_vars

\* several columns of 'Posibles' vary at once
ConjWorkbooks == Workbooks(EmptyBook, "posibles", SheetsOf(ConjRows, MaxConjRows))
SpecConjunction == InitOn(ConjWorkbooks) /\ [][Run(ConjTexts, DefaultExport)]_vars

\* the columns of the search tabs' sheets vary, and so do the columns
\* picked for the export
ExportWorkbooks ==
    Workbooks(EmptyBook, "posibles", WideSheets)
        \cup Workbooks(EmptyBook, "aprovechables", PivotSheets)
SpecExport == InitOn(ExportWorkbooks) /\ [][Run(FewTexts, ExportGestures)]_vars

\* the targets vary against a few actuals, and the actuals against a target
MetasWorkbooks ==
    {[EmptyBook EXCEPT !.metas = m, !.asivamos = a] :
        m \in MetasSheets, a \in SomeActuals}
      \cup {[EmptyBook EXCEPT !.metas = SomeTargets, !.asivamos = a] :
              a \in SheetsOf(ActualRows, MaxActualRows)}
SpecMetas == InitOn(MetasWorkbooks) /\ [][Run(FewTexts, DefaultExport)]_vars

\* the options of the retained filters change from one upload to the next
SessionWorkbooks ==
    {[EmptyBook EXCEPT !.posibles = p, !.aprovechables = a] :
        p \in SheetsOf(SessionRows, MaxSessionRows),
        a \in {EmptyFrame,
               [cols |-> DataCols,
                rows |-> <<[Plain EXCEPT !.cierre = Str("Abierto"), !.req = Str("R1")]>>]}}
SpecSession ==
    InitOn(SessionWorkbooks) /\ [][Run(FewTexts, DefaultExport) \/ Upload(SessionWorkbooks)]_vars

(***************************************************************************)
(* Properties                                                              *)
(***************************************************************************)
\* a search tab has rendered its results; a summary tab its summary
SearchShown == view.tab \in SearchPrefixes /\ view.shown \in {"resultados", "sin_resultados"}
SummaryShown == view.tab \in {"posibles", "aprovechables"} /\ view.shown = "resumen"

\* the rows of the sheet a summary tab reads
SheetRows(tab) ==
    IF tab = "posibles" THEN sheets.posibles.rows ELSE sheets.aprovechables.rows

\* C1: conservation of total.  For every filtered table and every grouping
\* column the program aggregates by (Comercial and Cliente in the search
\* tabs, Periodo in the summary tabs), the per-group sums add up to the sum
\* of the value column over the table, the total shown as the KPI.
C1_ConservationOfTotal ==
    /\ SearchShown =>
          /\ GroupTotal(view.df_comercial) = view.total
          /\ GroupTotal(view.df_cliente) = view.total
    /\ SummaryShown => GroupTotal(view.resumen) = view.total_general

\* p <= q for two ratios with positive denominators
RatioLeq(p, q) == p.num * q.den <= q.num * p.den

\* C2: the Pareto series.  Whenever '% Acumulado' is computed, it is
\* non-decreasing from one client to the next in the descending order, and
\* its last entry is 100.
C2_ParetoNonDecreasingTo100 ==
    SearchShown /\ view.pareto # <<>> =>
        /\ \A i \in 1..(Len(view.pareto) - 1) :
              RatioLeq(view.pareto[i], view.pareto[i + 1])
        /\ LET last == view.pareto[Len(view.pareto)]
           IN  last.num = 100 * last.den

\* C3, for the search tabs: an empty selection in 'REQUERIMIENTO ESPECIAL' or
\* 'OBSERVACIONES' leaves the rows it is given, and so the total, as they
\* are.  For the summary tabs: with no period selected the filtered summary
\* is empty and the total of the selection is 0.
C3_EmptySelection ==
    /\ SearchShown /\ view.in.req = <<>> =>
          view.chain.por_req = view.chain.por_comercial
    /\ SearchShown /\ view.in.obs = <<>> =>
          view.chain.por_obs = view.chain.por_req
    /\ SearchShown /\ view.in.req = <<>> /\ view.in.obs = <<>> /\ view.in.rango = <<>> =>
          /\ view.chain.filtrado = view.chain.por_comercial
          /\ view.total = ColSum(view.chain.por_comercial)
    /\ SummaryShown /\ view.in.seleccion = <<>> =>
          /\ view.resumen_filtrado = <<>>
          /\ view.total_seleccionado = 0
          /\ view.grafico_vacio

\* C3 is reached: nothing is selected in a 'REQUERIMIENTO ESPECIAL' filter
\* that has options, over rows a selection would tell apart
C3_Witness ==
    /\ SearchShown /\ view.in.req = <<>> /\ Len(view.opts.req) = 2
    /\ Len(view.chain.por_req) = 2
    /\ view.chain.por_req[1].req # view.chain.por_req[2].req

\* C3 as stated: an empty selection of any multi-value filter, the period
\* multi-selection of the summary tabs included, yields the rows and the
\* total of no filter at all
C3_AsStated ==
    /\ SearchShown /\ view.in.req = <<>> =>
          view.chain.por_req = view.chain.por_comercial
    /\ SearchShown /\ view.in.obs = <<>> =>
          view.chain.por_obs = view.chain.por_req
    /\ SummaryShown /\ view.in.seleccion = <<>> =>
          /\ view.resumen_filtrado = view.resumen
          /\ view.total_seleccionado = view.total_general

\* the rows dated from the first hour of day `inicio` to the last of day `fin`
RowsFromTo(rows, inicio, fin) ==
    SelectSeq(rows, LAMBDA r :
        /\ r.fecha.t = "date"
        /\ HoursPerDay * inicio <= r.fecha.v
        /\ r.fecha.v < HoursPerDay * (fin + 1))

\* C4: date-range inclusivity.  With a range [start, end] selected, the
\* date-range filter of the search tabs and of "Así va facturación" retains
\* exactly the rows with start <= date < end + 1 day.
C4_DateRangeInclusive ==
    /\ SearchShown /\ Len(view.in.rango) = 2 =>
          view.chain.filtrado =
              RowsFromTo(view.chain.por_obs, view.in.rango[1], view.in.rango[2])
    /\ view.tab = "asivamos" /\ view.shown \in {"resultados", "sin_resultados"}
         /\ Timestamps(view.procesado) # {} =>
          view.filtrado =
              RowsFromTo(view.procesado, view.in.rango[1], view.in.rango[2])

\* C4 is reached: a row of the last hour of the end date is retained and a
\* row of the first hour of the following day is not
C4_Witness ==
    /\ SearchShown /\ Len(view.in.rango) = 2
    /\ Len(view.chain.por_obs) = 2 /\ Len(view.chain.filtrado) = 1
    /\ view.chain.filtrado[1].fecha.v = HoursPerDay * view.in.rango[2] + HoursPerDay - 1
    /\ \E i \in 1..2 :
          view.chain.por_obs[i].fecha = Date(HoursPerDay * (view.in.rango[2] + 1))

\* the Metas tab has rendered its comparison table
ComparacionShown == view.tab = "metas" /\ view.shown = "comparacion"

\* the recognised target cells, as <<column, row>>, of a targets sheet
TargetCells(metas) ==
    {<<c, r>> \in (1..Len(metas.names)) \X (1..Len(metas.cells)) :
        metas.names[c] \in Range(meses_ordenados)}

\* C5: target ratio policy.  Every row of the comparison table whose target
\* is 0 has the ratio 0, a number, whatever its actual amount; and a targets
\* sheet with a target of 0 and no text among its targets gets its table.
C5_ZeroTargetRatioZero ==
    /\ ComparacionShown =>
          \A i \in 1..Len(view.comparacion) :
              view.comparacion[i].Meta = Num(0) =>
                  /\ view.comparacion[i].Cumplimiento.t = "num"
                  /\ view.comparacion[i].Cumplimiento.num = 0
                  /\ view.comparacion[i].Cumplimiento.den # 0
    /\ /\ view.tab = "metas"
       /\ ~IsEmpty(sheets.asivamos) /\ {"fecha", "valor"} \subseteq sheets.asivamos.cols
       /\ \E cr \in TargetCells(sheets.metas) :
              sheets.metas.cells[cr[2]][cr[1]] = Num(0)
       /\ \A cr \in TargetCells(sheets.metas) :
              sheets.metas.cells[cr[2]][cr[1]].t # "text"
       => view.shown = "comparacion"

\* C5 is reached: a target of 0 against an actual of 500
C5_Witness ==
    /\ ComparacionShown
    /\ \E i \in 1..Len(view.comparacion) :
          /\ view.comparacion[i].Meta = Num(0)
          /\ view.comparacion[i].Facturado = 500
          /\ view.comparacion[i].Cumplimiento = [t |-> "num", num |-> 0, den |-> 1]

\* the valid actual rows of a month number, of any year
ActualsOfMonth(rows, mes) ==
    SelectSeq(CoerceRows(rows), LAMBDA r :
        r.fecha.t = "date" /\ r.valor.t = "num" /\ MonthOf(r.fecha.v) = mes)

\* C6: target-vs-actual join.  Every target cell under a recognised month
\* name is a row of the comparison table, and the table has no other row;
\* the actual of a row is the sum of the valid actual rows of its month
\* number, 0 when there is none; the ratio of a row with a non-zero target is
\* actual / target x 100.
C6_TargetActualJoin ==
    ComparacionShown =>
        /\ Len(view.comparacion) = Cardinality(TargetCells(sheets.metas))
        /\ \A cr \in TargetCells(sheets.metas) :
              \E i \in 1..Len(view.comparacion) :
                  /\ view.comparacion[i].Mes = sheets.metas.names[cr[1]]
                  /\ view.comparacion[i].Meta = sheets.metas.cells[cr[2]][cr[1]]
        /\ \A i \in 1..Len(view.comparacion) :
              LET row == view.comparacion[i]
              IN  /\ meses_ordenados[row.Mes_Numero] = row.Mes
                  /\ row.Facturado =
                        ColSum(ActualsOfMonth(sheets.asivamos.rows, row.Mes_Numero))
                  /\ row.Meta.t = "num" /\ row.Meta.v # 0 =>
                        /\ row.Cumplimiento.t = "num"
                        /\ row.Cumplimiento.num * row.Meta.v =
                               row.Facturado * 100 * row.Cumplimiento.den

\* C6 is reached: a target of 1000 against actuals of 300 and 500 gives 80,
\* next to a month without actual rows, whose actual is 0
C6_Witness ==
    /\ ComparacionShown
    /\ \E i, j \in 1..Len(view.comparacion) :
          /\ view.comparacion[i].Meta = Num(1000)
          /\ view.comparacion[i].Facturado = 800
          /\ view.comparacion[i].Cumplimiento.num = 80 * view.comparacion[i].Cumplimiento.den
          /\ ActualsOfMonth(sheets.asivamos.rows, view.comparacion[j].Mes_Numero) = <<>>
          /\ view.comparacion[j].Facturado = 0

\* s contains pat as a literal substring, ignoring case
LiteralContains(pat, s) ==
    \E i \in 0..(Len(s) - Len(pat)) :
        \A k \in 1..Len(pat) : Lower(pat[k]) = Lower(s[i + k])

\* C7: the text filter.  For a non-empty input the client filter retains
\* exactly the rows whose client name is not null and contains the input as a
\* literal substring, ignoring case; an empty input leaves the table as it is.
C7_LiteralSubstring ==
    SearchShown =>
        view.chain.por_texto =
            IF view.in.text = <<>> THEN view.chain.original
            ELSE SelectSeq(view.chain.original, LAMBDA r :
                     r.cliente.t = "str" /\ LiteralContains(view.in.text, r.cliente.v))

\* C8: the categorical filters.  Selecting an option that is a value of the
\* column retains exactly the rows with that value; selecting the sentinel
\* "Todos" leaves the rows as they are.
C8_ExactEquality ==
    SearchShown =>
        /\ view.chain.por_cierre =
              IF Str(view.in.cierre) \in {view.chain.original[i].cierre :
                                            i \in 1..Len(view.chain.original)}
              THEN SelectSeq(view.chain.por_texto,
                             LAMBDA r : r.cierre = Str(view.in.cierre))
              ELSE view.chain.por_texto
        /\ view.chain.por_comercial =
              IF Str(view.in.comercial) \in {view.chain.original[i].comercial :
                                               i \in 1..Len(view.chain.original)}
              THEN SelectSeq(view.chain.por_cierre,
                             LAMBDA r : r.comercial = Str(view.in.comercial))
              ELSE view.chain.por_cierre

\* the value a retained filter holds in the session state, its default when
\* no cycle has stored one yet
StoredBy(sel, filter, default) ==
    IF sel[filter] = <<>> THEN default ELSE sel[filter][1]

\* a render of search tab `prefix` that gets to its filters
RendersSearch(prefix) ==
    /\ pc = prefix /\ pc' # prefix
    /\ view'.tab = prefix /\ view'.shown \in {"resultados", "sin_resultados"}

\* C9: retained filter selections.  When a search tab is rendered, the value
\* preselected in a categorical filter is the one the previous cycle stored
\* under the key of the tab if it is among the options now offered, and
\* "Todos" otherwise; the values preselected in a multi-value filter are
\* those of the stored selection that are among the options now offered, in
\* their stored order, none being the empty selection.
C9_RetainedSelections ==
    [][\A prefix \in SearchPrefixes :
         RendersSearch(prefix) =>
            /\ \A f \in {"cierre", "comercial"} :
                  view'.presel[f] =
                      IF StoredBy(session[prefix], f, "Todos") \in Range(view'.opts[f])
                      THEN StoredBy(session[prefix], f, "Todos") ELSE "Todos"
            /\ \A f \in {"req", "obs"} :
                  view'.presel[f] =
                      SelectSeq(StoredBy(session[prefix], f, <<>>),
                                LAMBDA x : x \in Range(view'.opts[f]))]_vars

\* C9 is reached: of two stored 'REQUERIMIENTO ESPECIAL' values one is still
\* offered, and the stored 'Cierre' is not
C9_Witness ==
    /\ SearchShown
    /\ Len(view.prev.req) = 2 /\ Len(view.presel.req) = 1
    /\ view.prev.cierre # "Todos" /\ view.presel.cierre = "Todos"

\* C9 as stated: a stored selection is preselected if it is among the options
\* now offered, and the default of its filter otherwise
C9_AsStated ==
    [][\A prefix \in SearchPrefixes :
         RendersSearch(prefix) =>
            /\ \A f \in {"cierre", "comercial"} :
                  view'.presel[f] =
                      IF StoredBy(session[prefix], f, "Todos") \in Range(view'.opts[f])
                      THEN StoredBy(session[prefix], f, "Todos") ELSE "Todos"
            /\ \A f \in {"req", "obs"} :
                  view'.presel[f] =
                      IF Range(StoredBy(session[prefix], f, <<>>)) \subseteq Range(view'.opts[f])
                      THEN StoredBy(session[prefix], f, <<>>) ELSE <<>>]_vars

\* the sheet a search tab reads, and the table made of some of its rows
SheetOf(prefix) ==
    IF prefix = "buscar_respel" THEN sheets.posibles ELSE sheets.aprovechables
Table(prefix, rows) == [cols |-> SheetOf(prefix).cols, rows |-> rows]

\* C10: filter idempotence.  Each filter of a search tab, applied with the
\* same selection to the rows it has produced, produces the same rows.
C10_FilterIdempotence ==
    SearchShown =>
        /\ TextFilter(Table(view.tab, view.chain.por_texto),
                      view.chain.por_texto, view.in.text) = view.chain.por_texto
        /\ SelectFilter(view.chain.por_cierre, "cierre", view.in.cierre)
              = view.chain.por_cierre
        /\ SelectFilter(view.chain.por_comercial, "comercial", view.in.comercial)
              = view.chain.por_comercial
        /\ MultiFilter(view.chain.por_req, "req", view.in.req) = view.chain.por_req
        /\ MultiFilter(view.chain.por_obs, "obs", view.in.obs) = view.chain.por_obs
        /\ DateFilter(view.chain.filtrado, view.in.rango) = view.chain.filtrado

\* C10 is reached: the date-range filter has dropped a row and kept another
C10_Witness ==
    /\ SearchShown /\ Len(view.in.rango) = 2
    /\ Len(view.chain.por_obs) = 2 /\ Len(view.chain.filtrado) = 1

\* the rows of a table whose date and value are both valid after coercion
ValidRows(rows) ==
    SelectSeq(CoerceRows(rows), LAMBDA r : r.fecha.t = "date" /\ r.valor.t = "num")

\* C11: null-dropping before aggregation.  In every tab that totals the value
\* column, the totals and KPIs are those of the rows whose date and value are
\* both valid: a row whose date or value coerced to null adds to none of them.
C11_NullRowsAddNothing ==
    /\ SummaryShown =>
          /\ view.total_general = ColSum(ValidRows(SheetRows(view.tab)))
          /\ GroupTotal(view.resumen) = ColSum(ValidRows(SheetRows(view.tab)))
    /\ view.tab = "enviados" /\ view.shown = "resumen" =>
          view.total_general = ColSum(ValidRows(sheets.enviados.rows))
    /\ SearchShown => view.total = ColSum(ValidRows(view.chain.filtrado))
    /\ view.tab = "asivamos" /\ view.shown = "resultados" =>
          view.total_general = ColSum(ValidRows(view.filtrado))

\* the warning a search tab shows for a filter whose column is missing
ColumnWarning(col) ==
    CASE col = "cierre" -> "col_cierre" [] col = "comercial" -> "col_comercial"
      [] col = "req" -> "col_req" [] col = "obs" -> "col_obs"

\* C12: missing expected column.  A column missing from a non-empty sheet
\* never ends the render cycle: no tab ends it with a KeyError, and a search
\* tab shows the warning of each filter whose column is missing.
C12_MissingColumnSkipsFeature ==
    /\ ~(pc = "aborted" /\ view.shown = "KeyError")
    /\ SearchShown =>
          \A col \in {"cierre", "comercial", "req", "obs"} \ SheetOf(view.tab).cols :
              ColumnWarning(col) \in view.msgs

\* the sheets a tab depends on
SheetsOfTab(tab) ==
    CASE tab \in {"posibles", "buscar_respel"} -> {"posibles"}
      [] tab = "enviados" -> {"enviados"}
      [] tab = "metas" -> {"metas", "asivamos"}
      [] tab = "asivamos" -> {"asivamos"}
      [] tab \in {"aprovechables", "buscar_aprov"} -> {"aprovechables"}
      [] OTHER -> {}

\* C13: missing sheet.  A sheet that cannot be parsed is loaded as an empty
\* table with a warning in the sidebar, and the sheets that parse are loaded
\* as they are; a tab that depends on a sheet that could not be parsed shows
\* its no-data warning, never its content; a tab whose sheets all parsed
\* shows its content; and no missing sheet ends the render cycle.
C13_MissingSheetDegrades ==
    /\ \A n \in SheetNames :
          IF archivo[n].ok
          THEN sheets[n] = archivo[n].df /\ sidebar[n] = "success"
          ELSE sheets[n] = EmptyOf(n) /\ sidebar[n] = "warning"
    /\ \A tab \in Range(TabOrder) \ {"resumen_comerciales", "done"} :
          view.tab = tab =>
             IF \E n \in SheetsOfTab(tab) : ~archivo[n].ok
             THEN view.shown = (IF tab = "metas" THEN "faltan_datos" ELSE "sin_datos")
             ELSE view.shown \in {"resumen", "comparacion", "resultados", "ValueError"}
    /\ pc = "aborted" => view.tab = "asivamos" /\ view.shown = "ValueError"

\* C13 is reached: the sheet of the actuals could not be parsed, the Metas
\* tab has shown its warning, and the search tab after it shows its results
C13_Witness ==
    /\ ~archivo.asivamos.ok /\ archivo.metas.ok /\ archivo.posibles.ok
    /\ sidebar.asivamos = "warning" /\ sheets.asivamos = EmptyFrame
    /\ view.tab = "buscar_respel" /\ view.shown = "resultados"

\* C14: the Pareto edge case.  Whenever the filtered table is not empty and
\* the total of the per-client sums is not positive, the case of no client
\* group included, no cumulative percentage is computed and the note that
\* the Pareto cannot be generated is shown.
C14_ParetoEdgeMessage ==
    /\ SearchShown /\ view.shown = "resultados"
    /\ "cliente" \in SheetOf(view.tab).cols
    /\ GroupTotal(view.df_cliente) <= 0
    => /\ view.pareto = <<>>
       /\ "pareto_no_generado" \in view.msgs


\* the name a spreadsheet gives to its column number i, counted from 0
ColumnName(i) ==
    IF i < 26 THEN <<Chars[i + 1]>>
    ELSE <<Chars[i \div 26], Chars[(i % 26) + 1]>>

\* the export of a search tab that offers a download
Exported == SearchShown /\ view.shown = "resultados" /\ view.export.estado = "descarga"

\* C15: the total row of the exporter.  In every exported table with n data
\* rows, whatever the number of its columns, the last row holds for each
\* currency column at position i (one of the designated columns, holding
\* numbers) a SUM over the rows 2 to n+1 of the spreadsheet column i, and
\* no formula in the other columns.
C15_TotalRowFormulas ==
    Exported =>
        \A i \in 1..Len(view.export.columnas) :
            IF view.export.columnas[i]
                   \in cols_currency(view.tab, view.export.columnas)
               /\ IsNumericDtype(view.chain.original, view.export.columnas[i])
            THEN view.export.total_row[i]
                    = [t |-> "SUM", col |-> view.export.total_row[i].col,
                       first |-> 2, last |-> view.export.n + 1]
                 /\ <<view.export.total_row[i].col>> = ColumnName(i - 1)
            ELSE view.export.total_row[i].t # "SUM"


\* the sum of column col over the rows whose 'Residuo' is key
SumByResiduo(rows, key, col) ==
    SumSeq([i \in 1..Len(rows) |->
              IF ~IsNull(rows[i].residuo) /\ rows[i].residuo.v = key
                 /\ rows[i][col].t = "num"
              THEN rows[i][col].v ELSE 0])

\* a search tab has results and at least one column is picked for export
ExportAsked ==
    SearchShown /\ view.shown = "resultados" /\ view.in.export.columnas # <<>>

\* the grouping column or an aggregation column of the pivot is not in
\* the sheet
MissingPivotColumn ==
    \E c \in {"residuo"} \cup pivot_agg_cols(view.tab) : c \notin SheetOf(view.tab).cols

\* the workbook of the export cannot be built: no engine, or a pivot
\* without groups whose column width is rejected
BuildFailure ==
    \/ ~view.in.export.engine
    \/ /\ "residuo" \in SheetOf(view.tab).cols
       /\ \A i \in 1..Len(view.chain.filtrado) : IsNull(view.chain.filtrado[i].residuo)
       /\ ~view.in.export.nan_width

\* C16: degradation of the exporter.  When 'Residuo' or an aggregation
\* column of the pivot is missing from the sheet the export still offers the
\* download, its pivot sheet holding the diagnostic message (no 'Residuo')
\* or, per 'Residuo', the sums of the value column and of the aggregation
\* columns that exist; the download is withheld only when the workbook
\* cannot be built, and then an error is shown and the run goes on.
C16_ExporterDegradation ==
    ExportAsked =>
        /\ view.export.estado = (IF BuildFailure THEN "error" ELSE "descarga")
        /\ view.export.estado = "error" =>
              "export_error" \in view.msgs /\ pc # "aborted"
        /\ view.export.estado = "descarga" /\ MissingPivotColumn =>
              IF "residuo" \notin SheetOf(view.tab).cols
              THEN view.export.pivot = [t |-> "mensaje", data |-> <<>>]
              ELSE /\ view.export.pivot.t = "tabla"
                   /\ {view.export.pivot.data[i].key :
                          i \in 1..Len(view.export.pivot.data)}
                        = GroupKeys(view.chain.filtrado, "residuo")
                   /\ \A i \in 1..Len(view.export.pivot.data) :
                        LET g == view.export.pivot.data[i]
                        IN  /\ g.sum = SumByResiduo(view.chain.filtrado, g.key, "valor")
                            /\ DOMAIN g.otras
                                 = pivot_agg_cols(view.tab) \cap SheetOf(view.tab).cols
                            /\ \A c \in DOMAIN g.otras :
                                 g.otras[c] = SumByResiduo(view.chain.filtrado, g.key, c)

\* the export of a sheet without 'Residuo' is offered, with the message
C16_Witness ==
    /\ ExportAsked /\ view.tab = "buscar_aprov"
    /\ "residuo" \notin SheetOf(view.tab).cols
    /\ view.export.estado = "descarga"
    /\ view.export.pivot.t = "mensaje"


\* C17: the unset date range.  In a search tab, when no date or a single
\* date is picked, the date-range filter removes no row: the filtered table
\* is the table the other filters left, its rows without a date included.
C17_UnsetRangeKeepsAll ==
    SearchShown /\ Len(view.in.rango) < 2
        => view.chain.filtrado = view.chain.por_obs

\* a single date is picked and a row without a date stays in the result
C17_Witness ==
    /\ SearchShown /\ Len(view.in.rango) = 1
    /\ \E i \in 1..Len(view.chain.filtrado) : IsNull(view.chain.filtrado[i].fecha)
    /\ \E i \in 1..Len(view.chain.filtrado) : ~IsNull(view.chain.filtrado[i].fecha)


\* row r satisfies every filter of the shown search tab that is active: a
\* text that was searched, a cierre or comercial other than "Todos", a
\* non-empty selection of requirements or observations, a complete range
SatisfiesActive(r) ==
    /\ TextFilterOutcome(SheetOf(view.tab), view.in.text) = "ok"
          => StrContains(view.in.text, r.cliente)
    /\ view.in.cierre # "Todos"
          => ~IsNull(r.cierre) /\ r.cierre.v = view.in.cierre
    /\ view.in.comercial # "Todos"
          => ~IsNull(r.comercial) /\ r.comercial.v = view.in.comercial
    /\ view.in.req # <<>> => ~IsNull(r.req) /\ r.req.v \in Range(view.in.req)
    /\ view.in.obs # <<>> => ~IsNull(r.obs) /\ r.obs.v \in Range(view.in.obs)
    /\ Len(view.in.rango) = 2
          => InDateRange(r.fecha, view.in.rango[1], view.in.rango[2])

\* the filters of the shown search tab applied in the opposite order
ReverseChain ==
    TextFilter(SheetOf(view.tab),
        SelectFilter(
            SelectFilter(
                MultiFilter(
                    MultiFilter(
                        DateFilter(view.chain.original, view.in.rango),
                        "obs", view.in.obs),
                    "req", view.in.req),
                "comercial", view.in.comercial),
            "cierre", view.in.cierre),
        view.in.text)

\* C18: the filters are a conjunction.  For every combination of
\* selections the filtered table of a search tab holds exactly the rows of
\* the coerced source table that satisfy all the active predicates, and the
\* filters applied in the opposite order give the same table.
C18_FilterConjunction ==
    SearchShown =>
        /\ view.chain.filtrado = Filter(view.chain.original, SatisfiesActive)
        /\ view.chain.filtrado = ReverseChain

\* four kinds of filter are active at once and keep some rows; the row
\* that is dropped passes the first of them
C18_Witness ==
    /\ SearchShown /\ view.shown = "resultados"
    /\ view.in.text # <<>> /\ view.in.cierre # "Todos" /\ Len(view.in.rango) = 2
    /\ view.in.req # <<>>
    /\ Len(view.chain.filtrado) < Len(view.chain.original)
    /\ Len(view.chain.por_texto) = Len(view.chain.original)


\* a period summary is shown, by a summary tab or by the Enviados tab
ResumenShown ==
    view.tab \in {"posibles", "aprovechables", "enviados"} /\ view.shown = "resumen"

\* the calendar key of a timestamp: its day, its year and month, its year
CalendarKey(opcion, ts) ==
    LET day == ts \div HoursPerDay
        month == day \div DaysPerMonth
        ymd == <<BaseYear + month \div MonthsPerYear,
                 (month % MonthsPerYear) + 1,
                 (day % DaysPerMonth) + 1>>
    IN  SubSeq(ymd, 1, CASE opcion = "Día" -> 3 [] opcion = "Mes" -> 2
                         [] opcion = "Año" -> 1)

\* the values of the valid rows whose calendar key is key, added up
SumOfPeriod(rows, opcion, key) ==
    SumSeq([i \in 1..Len(rows) |->
              IF CalendarKey(opcion, rows[i].fecha.v) = key
              THEN rows[i].valor.v ELSE 0])

\* the rows of the example: 100 in a day of January of the base year
\* (2024), 200 in a day of its February
ExampleRows ==
    /\ Len(view.procesado) = 2
    /\ view.procesado[1].fecha.v \in 0..(MonthStart(1) - 1)
    /\ view.procesado[1].valor = Num(100)
    /\ view.procesado[2].fecha.v \in MonthStart(1)..(MonthStart(2) - 1)
    /\ view.procesado[2].valor = Num(200)

\* C19: period bucketing.  Under Day, Month or Year every row with a valid
\* date and value goes to the key of its own day, year-month or year, the
\* summary has exactly one entry per key present, and the amount of an entry
\* is the sum of the values of the rows of that key; 100 in January 2024 and
\* 200 in February 2024 give, by month, 2024-01: 100 and 2024-02: 200,
\* total 300.
C19_PeriodBucketing ==
    ResumenShown =>
        /\ \A i \in 1..Len(view.procesado) :
              \E j \in 1..Len(view.resumen) :
                  view.resumen[j].key
                      = CalendarKey(view.in.opcion, view.procesado[i].fecha.v)
        /\ \A j \in 1..Len(view.resumen) :
              /\ \E i \in 1..Len(view.procesado) :
                    CalendarKey(view.in.opcion, view.procesado[i].fecha.v)
                        = view.resumen[j].key
              /\ view.resumen[j].sum
                    = SumOfPeriod(view.procesado, view.in.opcion, view.resumen[j].key)
              /\ \A k \in 1..Len(view.resumen) :
                    view.resumen[k].key = view.resumen[j].key => k = j
        /\ ExampleRows /\ view.in.opcion = "Mes" =>
              /\ view.resumen = <<[key |-> <<BaseYear, 1>>, sum |-> 100],
                                  [key |-> <<BaseYear, 2>>, sum |-> 200]>>
              /\ view.total_general = 300

\* the example is rendered by month
C19_Witness ==
    /\ ResumenShown /\ ExampleRows /\ view.in.opcion = "Mes"
    /\ Len(view.resumen) = 2


\* the Spanish names of the months, in calendar order
SpanishMonths ==
    <<"Enero", "Febrero", "Marzo", "Abril", "Mayo", "Junio",
      "Julio", "Agosto", "Septiembre", "Octubre", "Noviembre", "Diciembre">>

\* the Metas tab was rendered for a targets sheet with a month among its
\* columns and no text under a month
MonthTargets ==
    /\ view.tab = "metas"
    /\ ~IsEmpty(sheets.asivamos) /\ {"fecha", "valor"} \subseteq sheets.asivamos.cols
    /\ sheets.metas.cells # <<>>
    /\ \E c \in 1..Len(sheets.metas.names) :
          sheets.metas.names[c] \in Range(SpanishMonths)
    /\ \A c \in 1..Len(sheets.metas.names), r \in 1..Len(sheets.metas.cells) :
          sheets.metas.names[c] \in Range(SpanishMonths)
              => sheets.metas.cells[r][c].t # "text"

C21_SourcesUnmodified == sheets = Load(archivo).dfs

\* the second tab of a sheet was rendered on a coerced copy that differs
\* from the sheet
C21_Witness ==
    /\ SearchShown
    /\ view.chain.original # SheetOf(view.tab).rows
    /\ sheets = Load(archivo).dfs


\* the Total of the valid rows of the actuals sheet dated in month mes of
\* any year, added up
ActualOfMonthAnyYear(rows, mes) ==
    SumSeq([i \in 1..Len(rows) |->
              IF /\ safe_to_datetime(rows[i].fecha).t = "date"
                 /\ safe_to_numeric(rows[i].valor).t = "num"
                 /\ (((safe_to_datetime(rows[i].fecha).v \div HoursPerDay)
                        \div DaysPerMonth) % MonthsPerYear) + 1 = mes
              THEN safe_to_numeric(rows[i].valor).v ELSE 0])

\* C22: the actuals are bucketed by the number of the month only.  The
\* actual compared with the target of month m is the sum of the Total of
\* every valid row of the actuals sheet dated in month m, of whatever year.
C22_ActualsByMonthNumber ==
    ComparacionShown =>
        \A i \in 1..Len(view.comparacion) :
            view.comparacion[i].Facturado
                = ActualOfMonthAnyYear(sheets.asivamos.rows,
                                       view.comparacion[i].Mes_Numero)

\* the January of two years is added into the actual of 'Enero'
C22_Witness ==
    /\ ComparacionShown
    /\ Len(sheets.asivamos.rows) = 2
    /\ sheets.asivamos.rows[1].fecha = Date(MonthStart(0))
    /\ sheets.asivamos.rows[2].fecha = Date(MonthStart(MonthsPerYear))
    /\ \E i \in 1..Len(view.comparacion) :
          /\ view.comparacion[i].Mes = "Enero"
          /\ view.comparacion[i].Facturado = 800


\* the values present in column f of the sheet of search tab `prefix`
Present(prefix, f) ==
    {SheetOf(prefix).rows[i][f].v :
        i \in {j \in 1..Len(SheetOf(prefix).rows) :
                 f \in SheetOf(prefix).cols /\ ~IsNull(SheetOf(prefix).rows[j][f])}}

\* the selection stored for filter f of search tab `prefix` is unset, the
\* default, or made of values present in the column of the current sheet
StoredValid(prefix, f) ==
    \/ session[prefix][f] = <<>>
    \/ IF f \in {"cierre", "comercial"}
       THEN session[prefix][f][1] \in {"Todos"} \cup Present(prefix, f)
       ELSE Range(session[prefix][f][1]) \subseteq Present(prefix, f)

\* search tab `prefix` gets to filter f: its sheet has rows, the date and
\* value columns, and the column of the filter
Offers(prefix, f) ==
    /\ ~IsEmpty(SheetOf(prefix))
    /\ {"fecha", "valor", f} \subseteq SheetOf(prefix).cols

\* C23: invariant of the retained selections.  After a render cycle, for
\* any sequence of cycles and uploads, the selection stored for a filter
\* that its search tab offers on the current sheet is "Todos" or a value
\* present in the column (categorical), or holds only values present in the
\* column (multi-value).
C23_StoredSelectionsValid ==
    pc = "done" =>
        \A prefix \in SearchPrefixes, f \in {"cierre", "comercial", "req", "obs"} :
            Offers(prefix, f) => StoredValid(prefix, f)

\* a cycle ends on a new file with a selection stored that the new sheet
\* still holds, the other filter having gone back to the default
C23_Witness ==
    /\ pc = "done"
    /\ Offers("buscar_aprov", "cierre")
    /\ session["buscar_aprov"].cierre = <<"Cerrado">>
    /\ session["buscar_aprov"].req = <<<<"R2">>>>
    /\ session["buscar_respel"].cierre = <<"Abierto">>

\* C23 as stated: after a render cycle every stored selection is valid for
\* the current sheet, offered or not
C23_AsStated ==
    pc = "done" =>
        \A prefix \in SearchPrefixes, f \in {"cierre", "comercial", "req", "obs"} :
            StoredValid(prefix, f)


\* the other search tab
OtherSearch(prefix) == IF prefix = "buscar_respel" THEN "buscar_aprov" ELSE "buscar_respel"

\* the render of search tab `prefix` leaves the keys of the other one alone
LeavesOther(prefix) ==
    pc = prefix => session'[OtherSearch(prefix)] = session[OtherSearch(prefix)]

\* C24: tab isolation.  Over any sequence of render cycles, the render of
\* 'buscar_respel', whatever its widgets return, leaves every retained
\* selection of 'buscar_aprov' as it was, and the render of 'buscar_aprov'
\* leaves every retained selection of 'buscar_respel' as it was; a retained
\* selection of a tab changes only in the render of that tab.
C24_TabIsolation ==
    [][/\ \A prefix \in SearchPrefixes : LeavesOther(prefix)
       /\ \A prefix \in SearchPrefixes :
             session'[prefix] # session[prefix] => pc = prefix]_vars

\* 'buscar_respel' has just gone from "Cerrado" to "Abierto" while
\* 'buscar_aprov' still holds the selections an earlier cycle stored
C24_Witness ==
    /\ view.tab = "buscar_respel" /\ view.shown \in {"resultados", "sin_resultados"}
    /\ view.prev.cierre = "Cerrado"
    /\ session["buscar_respel"].cierre = <<"Abierto">>
    /\ session["buscar_aprov"].cierre = <<"Cerrado">>
    /\ session["buscar_aprov"].req = <<<<"R2">>>>


\* the number of rows of the comparison table that a month name and a target
\* cell have
RowsOf(mes, meta) ==
    Cardinality({i \in 1..Len(view.comparacion) :
                    view.comparacion[i].Mes = mes /\ view.comparacion[i].Meta = meta})

\* the number of target cells of a column that hold a given cell
CellsOf(c, meta) ==
    Cardinality({r \in 1..Len(sheets.metas.cells) : sheets.metas.cells[r][c] = meta})

\* the month numbers that have a row in the aggregated actuals
ActualMonths ==
    {view.facturado_por_mes[k].key : k \in 1..Len(view.facturado_por_mes)}

\* the month numbers of the recognised columns of the targets sheet
TargetMonths ==
    {mes_a_numero(sheets.metas.names[c]) : c \in 1..Len(sheets.metas.names)} \ {0}

\* C25: the join neither duplicates nor drops target rows.  The aggregated
\* actuals have at most one row for a month number; the comparison table
\* has, for every target cell under a recognised month name, exactly one row
\* with that month and that target, whether the month has actuals or not;
\* and a month that has actuals but no target has no row in the table.
C25_JoinKeepsTargetRows ==
    ComparacionShown =>
        /\ \A j, k \in 1..Len(view.facturado_por_mes) :
              view.facturado_por_mes[j].key = view.facturado_por_mes[k].key => j = k
        /\ \A cr \in TargetCells(sheets.metas) :
              RowsOf(sheets.metas.names[cr[1]], sheets.metas.cells[cr[2]][cr[1]])
                 = CellsOf(cr[1], sheets.metas.cells[cr[2]][cr[1]])
        /\ \A mes \in ActualMonths \ TargetMonths :
              \A i \in 1..Len(view.comparacion) : view.comparacion[i].Mes_Numero # mes

\* C25 is reached: a target for February only, against actuals of January
\* and of February: one row, February's, with its actual
C25_Witness ==
    /\ ComparacionShown
    /\ ActualMonths = {1, 2}
    /\ TargetMonths = {2}
    /\ Len(view.comparacion) = 1
    /\ view.comparacion[1].Mes = "Febrero"
    /\ view.comparacion[1].Facturado = 500

\* C25 for a month without actuals: its target row is kept, with actual 0
C25_WitnessUnmatched ==
    /\ ComparacionShown
    /\ ActualMonths = {1}
    /\ \E i \in 1..Len(view.comparacion) :
          view.comparacion[i].Mes = "Febrero" /\ view.comparacion[i].Facturado = 0


\* the ratio is a number: neither NaN nor the result of a division by zero
Finite(ratio) == ratio.t = "num" /\ ratio.den # 0

\* C26: the ratio is always a defined finite number.  Every row of the
\* comparison table that is shown has a '% Cumplimiento' that is a finite
\* number, whatever the cell of its target, an empty (null) cell included,
\* so that neither the table nor the chart gets a NaN or an infinity.
C26_RatioAlwaysFinite ==
    ComparacionShown =>
        \A i \in 1..Len(view.comparacion) : Finite(view.comparacion[i].Cumplimiento)

\* the rows whose target is a number do have a finite ratio
C26_NumericTargetsFinite ==
    ComparacionShown =>
        \A i \in 1..Len(view.comparacion) :
            view.comparacion[i].Meta.t = "num" => Finite(view.comparacion[i].Cumplimiento)

=============================================================================
